---- MODULE Spec2Model ----
(***************************************************************************)
(* Model of graph-node's polling block ingestor                            *)
(* (chain/ethereum/src/ingestor.rs) and of the block-range predicate       *)
(* generator of the entity store (store/postgres/src/block_range.rs).      *)
(*                                                                         *)
(* Spec      : the ingestor's run loop against a chain cache and a source. *)
(* StoreSpec : versions of one mutable entity, rows of an immutable table, *)
(*             and the block-range queries run against them.               *)
(* RangeSpec : first_block_in_range applied to the pairs of bounds.        *)
(* BackoffSpec : the run loop's use of its ExponentialBackoff.             *)
(* StatusSpec  : do_poll run on two pairs of head and latest header.       *)
(* IntervalSpec : the entity store under EntityBlockRange queries.         *)
(***************************************************************************)
EXTENDS Integers, Sequences, FiniteSets, TLC

(***************************************************************************)
(* Bounds of the model.                                                    *)
(***************************************************************************)
\* highest block number the source ever reports
MaxNum == 3
\* the ingestor's ancestor_count (operator configured)
AncestorCount == 2
\* cap of the consecutive acquisition failures that are counted
MaxAttempt == 2
\* highest block at which entity mutations are applied
MaxBlock == 2
\* most mutations applied to the versioned entity
MaxOps == 3
\* most rows inserted into an immutable table
MaxImm == 2
\* cap of the counted while-loop iterations of one poll cycle
MaxIters == AncestorCount + 2
\* most backoff sleeps of one run of the loop
MaxSleeps == 9
\* highest latest block number of the poll cycles set side by side
MaxLag == 16
\* highest head number of the poll cycles set side by side
MaxLagHead == 1

VARIABLES
    blocks,               \* chain cache: hashes of the stored blocks
    head,                 \* chain cache: chain head pointer, or None
    cleanup_blocks,       \* ENV_VARS.cleanup_blocks
    pc,                   \* position of run(): acquire, poll, ingest_latest, fill, cleanup, sleep
    attempt,              \* consecutive handle acquisition failures seen by the backoff
    head_block_ptr_opt,   \* do_poll: head read at the start of the cycle
    latest_block,         \* do_poll: latest header reported by the source
    missing_block_hash,   \* do_poll: hash the next ingest_block call is given
    fillIters,            \* do_poll: iterations of the while loop in this cycle
    pollResult,           \* result of the last do_poll: Ok or the IngestorError
    calls,                \* source and cache operations of the current cycle, in order
    cleanup_result,       \* run: what cleanup_cached_blocks got from the cache in this cycle
    unavailable_hash,     \* do_poll: the hash its BlockUnavailable error carries, or None
    ingested_latest,      \* history: the latest block of the last finished poll cycle, if
                          \* that cycle's ingest_block of it returned Ok
    table,                \* entity store: the table, [immutable, is_account_like]
    use_brin_for_all_query_types,
                          \* ENV_VARS.store.use_brin_for_all_query_types
    curBlock,             \* entity store: block whose mutations are being applied
    rows,                 \* entity store: rows of the table, [id, range] or [block]
    hist,                 \* entity store: mutations applied to entity X, [op, block]
    query,                \* entity store: the last query that ran
    selected,             \* entity store: indexes of the rows the last query selected
    txRows,               \* entity store: the table as the open update transaction sees it
    clampResult,          \* entity store: how the last clamp() call ended
    bound,                \* first_block_in_range: its argument, a pair of bounds
    first_block,          \* first_block_in_range: what the call returned
    overflow_checks,      \* whether the build checks integer arithmetic for overflow
    slept,                \* run: the delays the backoff slept, in milliseconds, in order
    status_runs,          \* two poll cycles side by side: each one's cache head and the
                          \* latest header the source reports to it
    status_plans          \* two poll cycles side by side: what do_poll did in each

ingestVars == <<blocks, head, cleanup_blocks, pc, attempt, head_block_ptr_opt,
                latest_block, missing_block_hash, fillIters, pollResult, calls,
                cleanup_result, unavailable_hash, ingested_latest>>

storeVars == <<table, use_brin_for_all_query_types, curBlock, rows, hist, query, selected,
               txRows, clampResult>>

rangeVars == <<bound, first_block, overflow_checks>>

backoffVars == <<slept>>

statusVars == <<status_runs, status_plans>>

vars == <<ingestVars, storeVars, rangeVars, backoffVars, statusVars>>

(***************************************************************************)
(* Blocks.  A hash is <<fork, number>>; the hash is the block's identity   *)
(* and fixes its number and its parent.  Fork 1 is a chain 0..MaxNum from  *)
(* genesis, fork 2 branches off fork 1 above ForkPoint.                    *)
(***************************************************************************)
\* number of the last block the two forks share
ForkPoint == 0

None == <<0, 0 - 1>>

Universe == {<<1, n>> : n \in 0..MaxNum} \cup {<<2, n>> : n \in (ForkPoint + 1)..MaxNum}

Num(b) == b[2]

Parent(b) ==
    IF b[2] = 0 THEN None
    ELSE IF b[1] = 2 /\ b[2] = ForkPoint + 1 THEN <<1, ForkPoint>>
    ELSE <<b[1], b[2] - 1>>

Max2(a, b) == IF a >= b THEN a ELSE b

Min2(a, b) == IF a <= b THEN a ELSE b

(***************************************************************************)
(* Chain cache contract (spec section 4.2).                                *)
(***************************************************************************)
\* a variant that drops a block on the second upsert
UpsertBlockEvictsStored(bs, b) == IF b \in bs THEN bs \ {b} ELSE bs \cup {b}

\* upsert a block by content; storing a stored block again changes nothing
UpsertBlock(bs, b) == bs \cup {b}

\* candidate for the head: the highest stored block above the current head
\* (lowest hash first among equals)
HeadCandidate(bs, hd) ==
    LET above == {b \in bs : Num(b) > Num(hd)}
        top   == {b \in above : \A c \in above : Num(c) <= Num(b)}
    IN  IF above = {} THEN None
        ELSE CHOOSE b \in top : \A c \in top : b[1] <= c[1]

\* first ancestor of b that is not stored, looking no further back than
\* block number first; None when the window is fully connected
RECURSIVE MissingParent(_, _, _)
MissingParent(bs, b, first) ==
    IF Num(b) <= first THEN None
    ELSE IF Parent(b) \notin bs THEN Parent(b)
    ELSE MissingParent(bs, Parent(b), first)

\* attempt a head advance bounded by the ancestor window: the head moves to
\* the candidate once no ancestor inside the window is missing, otherwise
\* the head is unchanged and the missing ancestor's hash is returned
AttemptChainHeadUpdate(bs, hd, ancestor_count) ==
    LET cand == HeadCandidate(bs, hd)
        miss == IF cand = None THEN None
                ELSE MissingParent(bs, cand, Max2(0, Num(cand) - ancestor_count))
    IN  [head    |-> IF cand # None /\ miss = None THEN cand ELSE hd,
         missing |-> miss]

\* drop the blocks older than ancestor_count behind the head
CleanupCachedBlocks(bs, hd, ancestor_count) ==
    LET floor   == Num(hd) - ancestor_count
        removed == IF hd = None THEN {} ELSE {b \in bs : Num(b) < floor}
    IN  [blocks |-> bs \ removed,
         result |-> IF hd = None THEN None ELSE <<floor, Cardinality(removed)>>]

(***************************************************************************)
(* PollingBlockIngestor                                                    *)
(***************************************************************************)
\* what run() has from cleanup_cached_blocks before the cycle's cleanup ran
NoCleanup == [status |-> "none", value |-> None]

\* a variant that cleans with a window one block shorter
IngestorCleanupNarrow(bs, hd, ok) ==
    IF ok
    THEN LET c == CleanupCachedBlocks(bs, hd, AncestorCount - 1)
         IN  [blocks |-> c.blocks, result |-> [status |-> "Ok", value |-> c.result]]
    ELSE [blocks |-> bs, result |-> [status |-> "Err", value |-> None]]

\* PollingBlockIngestor::cleanup_cached_blocks: the cache cleans with
\* self.ancestor_count; Ok(Some((min_block, count))), Ok(None) and Err are
\* logged or ignored, nothing is returned
IngestorCleanup(bs, hd, ok) ==
    IF ok
    THEN LET c == CleanupCachedBlocks(bs, hd, AncestorCount)
         IN  [blocks |-> c.blocks, result |-> [status |-> "Ok", value |-> c.result]]
    ELSE [blocks |-> bs, result |-> [status |-> "Err", value |-> None]]

\* outcomes of the calls ingest_block makes
IngestOutcomes == {"ok", "unavailable", "fetch_err", "load_err", "upsert_err", "head_err"}

\* ingest_block(hash) with the window it passes to the head update: fetch the
\* full block, store it, attempt a head update
IngestBlockWith(bs, hd, hash, outcome, ancestor_count) ==
    LET stored == UpsertBlock(bs, hash)
        upd    == AttemptChainHeadUpdate(stored, hd, ancestor_count)
    IN  CASE outcome = "unavailable" ->
               [blocks |-> bs, head |-> hd, result |-> "BlockUnavailable", missing |-> None,
                ops |-> <<"block_by_hash">>, unavailable |-> hash]
          [] outcome = "fetch_err" ->
               [blocks |-> bs, head |-> hd, result |-> "Unknown", missing |-> None,
                ops |-> <<"block_by_hash">>, unavailable |-> None]
          [] outcome = "load_err" ->
               [blocks |-> bs, head |-> hd, result |-> "ReceiptsUnavailable", missing |-> None,
                ops |-> <<"block_by_hash", "load_full_block">>, unavailable |-> None]
          [] outcome = "upsert_err" ->
               [blocks |-> bs, head |-> hd, result |-> "Unknown", missing |-> None,
                ops |-> <<"block_by_hash", "load_full_block", "upsert_block">>,
                unavailable |-> None]
          [] outcome = "head_err" ->
               [blocks |-> stored, head |-> hd, result |-> "Unknown", missing |-> None,
                ops |-> <<"block_by_hash", "load_full_block", "upsert_block",
                          "attempt_chain_head_update">>, unavailable |-> None]
          [] OTHER ->
               [blocks |-> stored, head |-> upd.head, result |-> "Ok", missing |-> upd.missing,
                ops |-> <<"block_by_hash", "load_full_block", "upsert_block",
                          "attempt_chain_head_update">>, unavailable |-> None]

\* a variant that asks for one ancestor more than ancestor_count
IngestBlockWiderWindow(bs, hd, hash, outcome) ==
    IngestBlockWith(bs, hd, hash, outcome, AncestorCount + 1)

\* a variant that makes the block it stored the head once nothing is missing
IngestBlockHeadIsStored(bs, hd, hash, outcome) ==
    LET r == IngestBlockWith(bs, hd, hash, outcome, AncestorCount)
    IN  IF r.result = "Ok" /\ r.missing = None THEN [r EXCEPT !.head = hash] ELSE r

\* a variant that reports a block the source does not have as Unknown
IngestBlockUnavailableUnknown(bs, hd, hash, outcome) ==
    IngestBlockWith(bs, hd, hash,
                    IF outcome = "unavailable" THEN "fetch_err" ELSE outcome,
                    AncestorCount)

\* a variant that asks for one ancestor fewer than ancestor_count
IngestBlockNarrowWindow(bs, hd, hash, outcome) ==
    IngestBlockWith(bs, hd, hash, outcome, AncestorCount - 1)

\* a variant that hands back the hash it was given while an ancestor is missing
IngestBlockRepeatsMissing(bs, hd, hash, outcome) ==
    LET r == IngestBlockWith(bs, hd, hash, outcome, AncestorCount)
    IN  IF r.missing # None THEN [r EXCEPT !.missing = hash] ELSE r

\* a variant that stores the block and does not attempt a head update
IngestBlockStoresOnly(bs, hd, hash, outcome) ==
    LET r == IngestBlockWith(bs, hd, hash, outcome, AncestorCount)
    IN  [r EXCEPT !.head = hd, !.missing = None]

\* a variant that attempts the head update before it stores the block
IngestBlockHeadFirst(bs, hd, hash, outcome) ==
    LET upd == AttemptChainHeadUpdate(bs, hd, AncestorCount)
        r   == IngestBlockWith(bs, hd, hash, outcome, AncestorCount)
    IN  IF Len(r.ops) = 4
        THEN [r EXCEPT !.ops = <<"block_by_hash", "load_full_block",
                                 "attempt_chain_head_update", "upsert_block">>,
                       !.head = IF outcome = "ok" THEN upd.head ELSE hd,
                       !.missing = IF outcome = "ok" THEN upd.missing ELSE None]
        ELSE r

\* a variant that makes the stored block the head when the head update fails
IngestBlockErrMovesHead(bs, hd, hash, outcome) ==
    LET r == IngestBlockWith(bs, hd, hash, outcome, AncestorCount)
    IN  IF outcome = "head_err" THEN [r EXCEPT !.head = hash] ELSE r

\* ingest_block(hash), which passes self.ancestor_count
IngestBlock(bs, hd, hash, outcome) ==
    IngestBlockWith(bs, hd, hash, outcome, AncestorCount)

\* a variant that hands the latest block's hash to every call
IngestTargetLatest(latest, missing) == latest

\* the hash do_poll hands to ingest_block: missing_block_hash, which is the
\* latest block's hash first and then the hash the previous call returned
IngestTarget(latest, missing) == missing

\* a variant without the check for a latest block below the head
PollDecisionNoBackward(hd, latest) ==
    IF hd # None /\ latest = hd THEN "noop" ELSE "ingest"

\* a variant without the check for a latest block equal to the head
PollDecisionNoNoop(hd, latest) ==
    IF hd # None /\ Num(latest) < Num(hd) THEN "backward" ELSE "ingest"

\* a variant that ingests nothing while the cache has no head
PollDecisionColdNoop(hd, latest) ==
    IF hd = None \/ latest = hd THEN "noop"
    ELSE IF Num(latest) < Num(hd) THEN "backward"
    ELSE "ingest"

\* a variant that leaves a cache that lags by 15 blocks or more alone
PollDecisionLaggingWaits(hd, latest) ==
    IF hd # None /\ latest = hd THEN "noop"
    ELSE IF hd # None /\ Num(latest) < Num(hd) THEN "backward"
    ELSE IF hd # None /\ Num(latest) - Num(hd) >= 15 THEN "noop"
    ELSE "ingest"

\* a variant that compares block numbers only and takes a latest block at the
\* head's number for the head
PollDecisionByNumber(hd, latest) ==
    IF hd # None /\ Num(latest) = Num(hd) THEN "noop"
    ELSE IF hd # None /\ Num(latest) < Num(hd) THEN "backward"
    ELSE "ingest"

\* the checks do_poll makes on the head and the latest header before ingesting
PollDecision(hd, latest) ==
    IF hd # None /\ latest = hd THEN "noop"
    ELSE IF hd # None /\ Num(latest) < Num(hd) THEN "backward"
    ELSE "ingest"

\* the log code do_poll attaches to its status message
StatusCode(hd, latest) ==
    IF hd = None THEN "cold_start"
    ELSE IF Num(latest) - Num(hd) >= 15 THEN "BlockIngestionLagging"
    ELSE "BlockIngestionStatus"

NoLog == [msg |-> "none", code |-> "none", blocks_needed |-> 0]

\* the message do_poll logs before it ingests: the download message without
\* a head, the status message when the latest block is above the head
StatusLog(hd, latest) ==
    IF hd = None
    THEN [msg |-> "Downloading latest blocks", code |-> "none", blocks_needed |-> 0]
    ELSE IF Num(latest) - Num(hd) > 0
    THEN [msg |-> "Syncing blocks", code |-> StatusCode(hd, latest),
          blocks_needed |-> Min2(Num(latest) - Num(hd), AncestorCount)]
    ELSE NoLog

\* do_poll's calls of ingest_block from the one of hash on, each of them
\* succeeding: the cache they leave and the operations they made
RECURSIVE FillLoop(_, _, _, _, _)
FillLoop(bs, hd, latest, hash, fuel) ==
    LET r == IngestBlock(bs, hd, IngestTarget(latest, hash), "ok")
    IN  IF r.missing = None \/ fuel = 0
        THEN [blocks |-> r.blocks, head |-> r.head, ops |-> r.ops]
        ELSE LET rest == FillLoop(r.blocks, r.head, latest, r.missing, fuel - 1)
             IN  [rest EXCEPT !.ops = r.ops \o @]

\* do_poll on a cache and a latest header, each of its calls succeeding
DoPoll(bs, hd, latest) ==
    LET begin == <<"chain_head_ptr", "latest_block_header">>
    IN  IF PollDecision(hd, latest) # "ingest"
        THEN [blocks |-> bs, head |-> hd, ops |-> begin, log |-> NoLog]
        ELSE LET f == FillLoop(bs, hd, latest, latest, MaxIters)
             IN  [blocks |-> f.blocks, head |-> f.head, ops |-> begin \o f.ops,
                  log |-> StatusLog(hd, latest)]

\* run: the backoff is ExponentialBackoff::new(250 ms, 30 s)
BackoffBase == 250

BackoffCeiling == 30000

RECURSIVE Pow2(_)
Pow2(n) == IF n = 0 THEN 1 ELSE 2 * Pow2(n - 1)

\* a variant without the ceiling
BackoffDelayNoCeiling(att) == BackoffBase * Pow2(att)

\* the delay the backoff sleeps after att earlier consecutive failures, in
\* milliseconds: the base doubled att times, at most the ceiling
BackoffDelay(att) == Min2(BackoffBase * Pow2(att), BackoffCeiling)

(***************************************************************************)
(* Block ranges and the SQL the predicate generator emits                  *)
(* (store/postgres/src/block_range.rs).                                    *)
(*                                                                         *)
(* A bound is <<"Included", n>>, <<"Excluded", n>> or <<"Unbounded", 0>>;  *)
(* a stored int4range is [lower, upper] in canonical form or EmptyRange.   *)
(* An SQL integer is <<"int", n>> or SqlNull; an SQL boolean is "true",    *)
(* "false" or "null", and a WHERE clause keeps the rows that give "true".  *)
(***************************************************************************)
BLOCK_NUMBER_MAX == 2147483647

BLOCK_UNVERSIONED == 0 - 1

Unbounded == <<"Unbounded", 0>>

Included(n) == <<"Included", n>>

Excluded(n) == <<"Excluded", n>>

UNVERSIONED_RANGE == [lower |-> Included(BLOCK_UNVERSIONED), upper |-> Unbounded]

EmptyRange == [lower |-> <<"Empty", 0>>, upper |-> <<"Empty", 0>>]

\* what int4range() raises for lower > upper
RangeError == [lower |-> <<"Error", 0>>, upper |-> <<"Error", 0>>]

SqlNull == <<"null", 0>>

SqlInt(n) == <<"int", n>>

\* a <= b, a < b, a >= b, a > b over SQL integers: null when either side is
SqlLe(a, b) ==
    IF a = SqlNull \/ b = SqlNull THEN "null" ELSE IF a[2] <= b[2] THEN "true" ELSE "false"

SqlLt(a, b) ==
    IF a = SqlNull \/ b = SqlNull THEN "null" ELSE IF a[2] < b[2] THEN "true" ELSE "false"

SqlGe(a, b) == SqlLe(b, a)

SqlGt(a, b) == SqlLt(b, a)

SqlAnd(x, y) ==
    IF x = "false" \/ y = "false" THEN "false"
    ELSE IF x = "null" \/ y = "null" THEN "null"
    ELSE "true"

\* a variant that leaves a null as it is
SqlCoalesceNull(a, d) == a

SqlCoalesce(a, d) == IF a = SqlNull THEN d ELSE a

\* lower(block_range): null for an empty range and for no lower bound
SqlLower(r) ==
    IF r.lower[1] = "Included" THEN SqlInt(r.lower[2])
    ELSE IF r.lower[1] = "Excluded" THEN SqlInt(r.lower[2] + 1)
    ELSE SqlNull

\* upper(block_range): null for an empty range and for no upper bound
SqlUpper(r) ==
    IF r.upper[1] = "Excluded" THEN SqlInt(r.upper[2])
    ELSE IF r.upper[1] = "Included" THEN SqlInt(r.upper[2] + 1)
    ELSE SqlNull

\* block_range @> b
SqlRangeContains(r, b) ==
    IF r = EmptyRange THEN "false"
    ELSE IF /\ \/ r.lower = Unbounded
               \/ r.lower[1] = "Included" /\ r.lower[2] <= b
               \/ r.lower[1] = "Excluded" /\ r.lower[2] < b
            /\ \/ r.upper = Unbounded
               \/ r.upper[1] = "Excluded" /\ b < r.upper[2]
               \/ r.upper[1] = "Included" /\ b <= r.upper[2]
         THEN "true"
         ELSE "false"

\* int4range(l, u): the canonical range [l, u); a null argument leaves that
\* side unbounded, l = u gives the empty range, l > u is an error
Int4range(l, u) ==
    IF l # SqlNull /\ u # SqlNull /\ l[2] > u[2] THEN RangeError
    ELSE IF l # SqlNull /\ u # SqlNull /\ l[2] = u[2] THEN EmptyRange
    ELSE [lower |-> IF l = SqlNull THEN Unbounded ELSE Included(l[2]),
          upper |-> IF u = SqlNull THEN Unbounded ELSE Excluded(u[2])]

\* a variant that adds the conjuncts at BLOCK_NUMBER_MAX too
ContainsNoMaxGuard(immutable, is_account_like, use_brin, block, filters_by_id) ==
    LET should_use_brin == ~filters_by_id \/ use_brin
    IN  IF ~immutable
        THEN IF is_account_like /\ should_use_brin
             THEN << [op |-> "range_contains", block |-> block],
                     [op |-> "coalesce_upper_gt", block |-> block],
                     [op |-> "lower_le", block |-> block] >>
             ELSE << [op |-> "range_contains", block |-> block] >>
        ELSE IF block = BLOCK_NUMBER_MAX
             THEN << [op |-> "true", block |-> block] >>
             ELSE << [op |-> "block_le", block |-> block] >>

\* a variant whose conjunct on the lower bound is strict
ContainsStrictLower(immutable, is_account_like, use_brin, block, filters_by_id) ==
    LET should_use_brin == ~filters_by_id \/ use_brin
    IN  IF ~immutable
        THEN IF is_account_like /\ block < BLOCK_NUMBER_MAX /\ should_use_brin
             THEN << [op |-> "range_contains", block |-> block],
                     [op |-> "coalesce_upper_gt", block |-> block],
                     [op |-> "lower_lt", block |-> block] >>
             ELSE << [op |-> "range_contains", block |-> block] >>
        ELSE IF block = BLOCK_NUMBER_MAX
             THEN << [op |-> "true", block |-> block] >>
             ELSE << [op |-> "block_le", block |-> block] >>

\* a variant that emits true at BLOCK_NUMBER_MAX for a mutable table too
ContainsMaxTrue(immutable, is_account_like, use_brin, block, filters_by_id) ==
    LET should_use_brin == ~filters_by_id \/ use_brin
    IN  IF block = BLOCK_NUMBER_MAX
        THEN << [op |-> "true", block |-> block] >>
        ELSE IF ~immutable
             THEN IF is_account_like /\ should_use_brin
                  THEN << [op |-> "range_contains", block |-> block],
                          [op |-> "coalesce_upper_gt", block |-> block],
                          [op |-> "lower_le", block |-> block] >>
                  ELSE << [op |-> "range_contains", block |-> block] >>
             ELSE << [op |-> "block_le", block |-> block] >>

\* a variant whose comparison on block$ is the wrong way round
ContainsImmutableReversed(immutable, is_account_like, use_brin, block, filters_by_id) ==
    LET should_use_brin == ~filters_by_id \/ use_brin
    IN  IF ~immutable
        THEN IF is_account_like /\ block < BLOCK_NUMBER_MAX /\ should_use_brin
             THEN << [op |-> "range_contains", block |-> block],
                     [op |-> "coalesce_upper_gt", block |-> block],
                     [op |-> "lower_le", block |-> block] >>
             ELSE << [op |-> "range_contains", block |-> block] >>
        ELSE IF block = BLOCK_NUMBER_MAX
             THEN << [op |-> "true", block |-> block] >>
             ELSE << [op |-> "block_ge", block |-> block] >>

\* BlockRangeColumn::contains: the conjuncts of the emitted predicate
Contains(immutable, is_account_like, use_brin, block, filters_by_id) ==
    LET should_use_brin == ~filters_by_id \/ use_brin
    IN  IF ~immutable
        THEN IF is_account_like /\ block < BLOCK_NUMBER_MAX /\ should_use_brin
             THEN << [op |-> "range_contains", block |-> block],
                     [op |-> "coalesce_upper_gt", block |-> block],
                     [op |-> "lower_le", block |-> block] >>
             ELSE << [op |-> "range_contains", block |-> block] >>
        ELSE IF block = BLOCK_NUMBER_MAX
             THEN << [op |-> "true", block |-> block] >>
             ELSE << [op |-> "block_le", block |-> block] >>

\* a variant that tests the lower bound of the range only
LatestLowerBound(immutable) ==
    IF ~immutable
    THEN << [op |-> "lower_le", block |-> BLOCK_NUMBER_MAX] >>
    ELSE << [op |-> "true", block |-> 0] >>

\* BlockRangeColumn::latest: BLOCK_RANGE_CURRENT, or true
Latest(immutable) ==
    IF ~immutable
    THEN << [op |-> "range_contains", block |-> BLOCK_NUMBER_MAX] >>
    ELSE << [op |-> "true", block |-> 0] >>

\* a variant that tests the bound with > instead of >=
ChangedSinceStrict(immutable, block) ==
    IF ~immutable
    THEN << [op |-> "lower_gt", block |-> block] >>
    ELSE << [op |-> "block_gt", block |-> block] >>

\* BlockRangeColumn::changed_since
ChangedSince(immutable, block) ==
    IF ~immutable
    THEN << [op |-> "lower_ge", block |-> block] >>
    ELSE << [op |-> "block_ge", block |-> block] >>

\* a variant that writes a SET clause for an immutable table too
ClampColumnWritesImmutable(immutable, block) == "Ok"

\* BlockRangeColumn::clamp, as the way the call ends: Ok(()) once the SET
\* clause is written for a mutable table, a panic (unreachable!) for an
\* immutable one
ClampColumn(immutable, block) ==
    IF ~immutable THEN "Ok" ELSE "panic"

\* a variant that moves the lower bound to block and leaves the range open
ClampMovesLower(r, block) == Int4range(SqlInt(block), SqlNull)

\* a variant that drops the lower bound
ClampDropsLower(r, block) == Int4range(SqlNull, SqlInt(block))

\* a variant that keeps block inside the clamped range
ClampInclusive(r, block) == Int4range(SqlLower(r), SqlInt(block + 1))

\* a variant that leaves the range as it is
ClampNothing(r, block) == r

\* BlockRangeColumn::clamp on a mutable table, applied to a row's range:
\* block_range = int4range(lower(block_range), block)
Clamp(r, block) == Int4range(SqlLower(r), SqlInt(block))

\* a variant that starts the version one block late
BlockRangeValueNewOffByOne(immutable, block, end) ==
    IF immutable THEN [block |-> block + 1]
    ELSE IF end # SqlNull
         THEN [range |-> Int4range(SqlInt(block + 1), end)]
         ELSE [range |-> [lower |-> Included(block + 1), upper |-> Unbounded]]

\* a variant that ends an open version at the block it starts at
BlockRangeValueNewClosed(immutable, block, end) ==
    IF immutable THEN [block |-> block]
    ELSE IF end # SqlNull
         THEN [range |-> Int4range(SqlInt(block), end)]
         ELSE [range |-> Int4range(SqlInt(block), SqlInt(block))]

\* BlockRangeValue::new, as the value the insert binds: block for an immutable
\* table, else the range block..end or block.. (end = SqlNull for None)
BlockRangeValueNew(immutable, block, end) ==
    IF immutable THEN [block |-> block]
    ELSE IF end # SqlNull
         THEN [range |-> Int4range(SqlInt(block), end)]
         ELSE [range |-> [lower |-> Included(block), upper |-> Unbounded]]

\* EntityBlockRange::new for the range start..end: the start is included,
\* the end is excluded; an immutable table has no bound side
EntityBlockRangeNew(immutable, start, end, bound_side) ==
    [immutable  |-> immutable,
     start      |-> Included(start),
     finish     |-> Excluded(end),
     bound_side |-> IF immutable THEN "none" ELSE bound_side]

\* compare_column: the column the two comparisons are made on
CompareColumn(ebr) ==
    IF ebr.immutable THEN "block$"
    ELSE IF ebr.bound_side = "Lower" THEN "lower(block_range)"
    ELSE "upper(block_range)"

\* a variant that compares with the last block of the half-open range
EntityBlockRangeContainsHalfOpen(ebr) ==
    <<[op |-> "col_ge", col |-> CompareColumn(ebr), block |-> ebr.start[2]],
      [op |-> "col_le", col |-> CompareColumn(ebr), block |-> ebr.finish[2] - 1]>>

\* EntityBlockRange::contains: column >= start (start + 1 for an excluded
\* start) and column <= finish (finish + 1 for an included finish)
EntityBlockRangeContains(ebr) ==
    <<[op |-> "col_ge", col |-> CompareColumn(ebr),
       block |-> IF ebr.start[1] = "Included" THEN ebr.start[2] ELSE ebr.start[2] + 1],
      [op |-> "col_le", col |-> CompareColumn(ebr),
       block |-> IF ebr.finish[1] = "Included" THEN ebr.finish[2] + 1 ELSE ebr.finish[2]]>>

\* i32::MIN
I32_MIN == (0 - 2147483647) - 1

\* Option<BlockNumber>
NoBlock == <<"None", 0>>

SomeBlock(n) == <<"Some", n>>

\* first_block_in_range has not been called
NotCalled == <<"not called", 0>>

\* nr + 1 on a BlockNumber (i32): at i32::MAX the addition overflows, which
\* panics in a build with overflow checks and wraps in one without
AddOne(nr, checks) ==
    IF nr < BLOCK_NUMBER_MAX THEN SomeBlock(nr + 1)
    ELSE IF checks THEN <<"panic", 0>>
    ELSE SomeBlock(I32_MIN)

\* a variant without the test for the unversioned range
FirstBlockInRangeNoSentinel(bnd, checks) ==
    CASE bnd.lower[1] = "Included" -> SomeBlock(bnd.lower[2])
      [] bnd.lower[1] = "Excluded" -> AddOne(bnd.lower[2], checks)
      [] OTHER                     -> NoBlock

\* first_block_in_range
FirstBlockInRange(bnd, checks) ==
    IF bnd = UNVERSIONED_RANGE THEN NoBlock
    ELSE CASE bnd.lower[1] = "Included" -> SomeBlock(bnd.lower[2])
           [] bnd.lower[1] = "Excluded" -> AddOne(bnd.lower[2], checks)
           [] OTHER                     -> NoBlock

\* the value of a compared column in a row
ColumnValue(col, row) ==
    CASE col = "lower(block_range)" -> SqlLower(row.range)
      [] col = "upper(block_range)" -> SqlUpper(row.range)
      [] col = "block$"             -> SqlInt(row.block)

\* one conjunct of an emitted predicate on a row: block_range is row.range
\* (mutable table), block$ is row.block (immutable table)
EvalAtom(a, row) ==
    CASE a.op = "true"              -> "true"
      [] a.op = "col_ge"            -> SqlGe(ColumnValue(a.col, row), SqlInt(a.block))
      [] a.op = "col_le"            -> SqlLe(ColumnValue(a.col, row), SqlInt(a.block))
      [] a.op = "range_contains"    -> SqlRangeContains(row.range, a.block)
      [] a.op = "coalesce_upper_gt" ->
            SqlGt(SqlCoalesce(SqlUpper(row.range), SqlInt(BLOCK_NUMBER_MAX)), SqlInt(a.block))
      [] a.op = "lower_le"          -> SqlLe(SqlLower(row.range), SqlInt(a.block))
      [] a.op = "lower_lt"          -> SqlLt(SqlLower(row.range), SqlInt(a.block))
      [] a.op = "lower_ge"          -> SqlGe(SqlLower(row.range), SqlInt(a.block))
      [] a.op = "lower_gt"          -> SqlGt(SqlLower(row.range), SqlInt(a.block))
      [] a.op = "block_le"          -> SqlLe(SqlInt(row.block), SqlInt(a.block))
      [] a.op = "block_ge"          -> SqlGe(SqlInt(row.block), SqlInt(a.block))
      [] a.op = "block_gt"          -> SqlGt(SqlInt(row.block), SqlInt(a.block))

\* the conjunction of the conjuncts
RECURSIVE EvalPred(_, _)
EvalPred(p, row) ==
    IF p = <<>> THEN "true"
    ELSE SqlAnd(EvalAtom(Head(p), row), EvalPred(Tail(p), row))

\* the rows a WHERE clause with predicate p keeps
Select(p, tbl) == {i \in 1..Len(tbl) : EvalPred(p, tbl[i]) = "true"}

NoQuery == [fn |-> "none", block |-> 0, filters_by_id |-> FALSE]

\* no update transaction is open
NoTx == [open |-> FALSE, rows |-> <<>>]

\* a variant in which a reader sees the statements of an open transaction
ReadViewDirty(committed, tx) == IF tx.open THEN tx.rows ELSE committed

\* the table a reader sees: what has been committed
ReadView(committed, tx) == committed

\* blocks a query may name
QueryBlocks == (0 - 1)..(MaxBlock + 1) \cup {BLOCK_NUMBER_MAX}

\* the values a Bound<BlockNumber> takes in the model
Bounds ==
    {Unbounded} \cup {Included(n) : n \in QueryBlocks} \cup {Excluded(n) : n \in QueryBlocks}

\* indexes of the versions of entity X in a mutable table, and of its
\* current version
VersionsOfX(tbl) == {i \in 1..Len(tbl) : tbl[i].id = "X"}

CurrentOfX(tbl) == {i \in VersionsOfX(tbl) : EvalPred(Latest(FALSE), tbl[i]) = "true"}

IngestInit ==
    /\ blocks = {}
    /\ head = None
    /\ cleanup_blocks \in BOOLEAN
    /\ pc = "acquire"
    /\ attempt = 0
    /\ head_block_ptr_opt = None
    /\ latest_block = None
    /\ missing_block_hash = None
    /\ fillIters = 0
    /\ pollResult = "Ok"
    /\ calls = <<>>
    /\ cleanup_result = NoCleanup
    /\ unavailable_hash = None
    /\ ingested_latest = None

\* a table of a deployment before the first block is applied: a mutable table
\* holds nothing or one unversioned row, an immutable table holds nothing
StoreStart ==
    /\ table \in [immutable : BOOLEAN, is_account_like : BOOLEAN]
    /\ use_brin_for_all_query_types \in BOOLEAN
    /\ curBlock = 0
    /\ rows \in {<<>>, <<[id |-> "M", range |-> UNVERSIONED_RANGE]>>}
    /\ table.immutable => rows = <<>>
    /\ hist = <<>>
    /\ query = NoQuery
    /\ selected = {}
    /\ txRows = NoTx
    /\ clampResult = "none"

\* first_block_in_range is not part of the run: no call, a release build
RangeIdle ==
    /\ bound = UNVERSIONED_RANGE
    /\ first_block = NotCalled
    /\ overflow_checks = FALSE

\* the backoff as run() constructs it: nothing slept yet
BackoffIdle == slept = <<>>

\* no pair of poll cycles is being compared
StatusIdle ==
    /\ status_runs = <<>>
    /\ status_plans = <<>>

Init ==
    /\ IngestInit
    /\ StoreStart
    /\ RangeIdle
    /\ BackoffIdle
    /\ StatusIdle
    /\ ~table.immutable
    /\ ~table.is_account_like
    /\ ~use_brin_for_all_query_types
    /\ rows = <<>>

\* a variant in which a failed acquisition goes on to the cleanup and the
\* polling-interval sleep
AcquireFailCleans ==
    /\ UNCHANGED <<storeVars, rangeVars, backoffVars, statusVars>>
    /\ pc = "acquire"
    /\ attempt' = Min2(attempt + 1, MaxAttempt)
    /\ pc' = "cleanup"
    /\ UNCHANGED <<blocks, head, cleanup_blocks, head_block_ptr_opt, latest_block,
                   missing_block_hash, fillIters, pollResult, calls, cleanup_result,
                   unavailable_hash, ingested_latest>>

\* run: self.eth_adapter() failed; the backoff sleeps and the loop continues
AcquireFail ==
    /\ UNCHANGED <<storeVars, rangeVars, backoffVars, statusVars>>
    /\ pc = "acquire"
    /\ attempt' = Min2(attempt + 1, MaxAttempt)
    /\ UNCHANGED <<blocks, head, cleanup_blocks, pc, head_block_ptr_opt, latest_block,
                   missing_block_hash, fillIters, pollResult, calls, cleanup_result,
                   unavailable_hash, ingested_latest>>

\* a variant that leaves the backoff as the failures left it
AcquireOkNoReset ==
    /\ UNCHANGED <<storeVars, rangeVars, backoffVars, statusVars>>
    /\ pc = "acquire"
    /\ pc' = "poll"
    /\ head_block_ptr_opt' = None
    /\ latest_block' = None
    /\ missing_block_hash' = None
    /\ fillIters' = 0
    /\ calls' = <<>>
    /\ cleanup_result' = NoCleanup
    /\ unavailable_hash' = None
    /\ UNCHANGED <<blocks, head, cleanup_blocks, attempt, pollResult, ingested_latest>>

\* run: self.eth_adapter() succeeded; the backoff is reset
AcquireOk ==
    /\ UNCHANGED <<storeVars, rangeVars, backoffVars, statusVars>>
    /\ pc = "acquire"
    /\ attempt' = 0
    /\ pc' = "poll"
    /\ head_block_ptr_opt' = None
    /\ latest_block' = None
    /\ missing_block_hash' = None
    /\ fillIters' = 0
    /\ calls' = <<>>
    /\ cleanup_result' = NoCleanup
    /\ unavailable_hash' = None
    /\ UNCHANGED <<blocks, head, cleanup_blocks, pollResult, ingested_latest>>

\* do_poll up to the first ingest_block: chain_head_ptr failed
PollHeadErr ==
    /\ UNCHANGED <<storeVars, rangeVars, backoffVars, statusVars>>
    /\ pc = "poll"
    /\ calls' = <<"chain_head_ptr">>
    /\ pollResult' = "Unknown"
    /\ pc' = "cleanup"
    /\ UNCHANGED <<blocks, head, cleanup_blocks, attempt, head_block_ptr_opt, latest_block,
                   missing_block_hash, fillIters, cleanup_result, unavailable_hash,
                   ingested_latest>>

\* do_poll up to the first ingest_block: latest_block failed
PollLatestErr ==
    /\ UNCHANGED <<storeVars, rangeVars, backoffVars, statusVars>>
    /\ pc = "poll"
    /\ head_block_ptr_opt' = head
    /\ calls' = <<"chain_head_ptr", "latest_block_header">>
    /\ pollResult' = "Unknown"
    /\ pc' = "cleanup"
    /\ UNCHANGED <<blocks, head, cleanup_blocks, attempt, latest_block,
                   missing_block_hash, fillIters, cleanup_result, unavailable_hash,
                   ingested_latest>>

\* do_poll up to the first ingest_block: head and latest header were read
PollBegin ==
    /\ UNCHANGED <<storeVars, rangeVars, backoffVars, statusVars>>
    /\ pc = "poll"
    /\ \E latest \in Universe :
         /\ head_block_ptr_opt' = head
         /\ latest_block' = latest
         /\ calls' = <<"chain_head_ptr", "latest_block_header">>
         /\ IF PollDecision(head, latest) = "ingest"
            THEN /\ missing_block_hash' = latest
                 /\ pc' = "ingest_latest"
                 /\ UNCHANGED pollResult
            ELSE /\ pollResult' = "Ok"
                 /\ pc' = "cleanup"
                 /\ UNCHANGED missing_block_hash
    /\ UNCHANGED <<blocks, head, cleanup_blocks, attempt, fillIters, cleanup_result,
                   unavailable_hash, ingested_latest>>

\* do_poll: one ingest_block call, of the latest block or inside the while loop
IngestStep ==
    /\ UNCHANGED <<storeVars, rangeVars, backoffVars, statusVars>>
    /\ pc \in {"ingest_latest", "fill"}
    /\ fillIters < MaxIters
    /\ \E outcome \in IngestOutcomes :
         LET r == IngestBlock(blocks, head,
                              IngestTarget(latest_block, missing_block_hash), outcome)
         IN  /\ blocks' = r.blocks
             /\ head' = r.head
             /\ calls' = calls \o r.ops
             /\ fillIters' = IF pc = "fill" THEN fillIters + 1 ELSE fillIters
             /\ missing_block_hash' = r.missing
             /\ unavailable_hash' = r.unavailable
             /\ IF r.result = "Ok" /\ r.missing # None
                THEN /\ pc' = "fill"
                     /\ UNCHANGED pollResult
                ELSE /\ pc' = "cleanup"
                     /\ pollResult' = r.result
    /\ UNCHANGED <<cleanup_blocks, attempt, head_block_ptr_opt, latest_block, cleanup_result,
                   ingested_latest>>

\* the cycle's ingest_block of the latest block returned Ok: the while loop
\* was entered, or do_poll returned Ok after that one call
LatestIngestedOk ==
    \/ Len(calls) > 6
    \/ Len(calls) = 6 /\ pollResult = "Ok"

\* a variant in which a cleanup that failed counts as a failed acquisition
CleanupAbortsOnErr ==
    /\ UNCHANGED <<storeVars, rangeVars, backoffVars, statusVars>>
    /\ pc = "cleanup"
    /\ IF cleanup_blocks
       THEN \E ok \in BOOLEAN :
              /\ blocks' = IngestorCleanup(blocks, head, ok).blocks
              /\ cleanup_result' = IngestorCleanup(blocks, head, ok).result
              /\ calls' = Append(calls, "cleanup_cached_blocks")
              /\ pc' = IF ok THEN "sleep" ELSE "acquire"
              /\ attempt' = IF ok THEN attempt ELSE Min2(attempt + 1, MaxAttempt)
       ELSE /\ pc' = "sleep"
            /\ UNCHANGED <<blocks, calls, cleanup_result, attempt>>
    /\ ingested_latest' = IF LatestIngestedOk THEN latest_block ELSE None
    /\ UNCHANGED <<head, cleanup_blocks, head_block_ptr_opt, latest_block,
                   missing_block_hash, fillIters, pollResult, unavailable_hash>>

\* a variant that cleans up only after a poll cycle that ended Ok
CleanupOnlyAfterOk ==
    /\ UNCHANGED <<storeVars, rangeVars, backoffVars, statusVars>>
    /\ pc = "cleanup"
    /\ pc' = "sleep"
    /\ IF cleanup_blocks /\ pollResult = "Ok"
       THEN \E ok \in BOOLEAN :
              /\ blocks' = IngestorCleanup(blocks, head, ok).blocks
              /\ cleanup_result' = IngestorCleanup(blocks, head, ok).result
              /\ calls' = Append(calls, "cleanup_cached_blocks")
       ELSE UNCHANGED <<blocks, calls, cleanup_result>>
    /\ ingested_latest' = IF LatestIngestedOk THEN latest_block ELSE None
    /\ UNCHANGED <<head, cleanup_blocks, attempt, head_block_ptr_opt, latest_block,
                   missing_block_hash, fillIters, pollResult, unavailable_hash>>

\* run: cleanup_cached_blocks when it is enabled; every result is only logged
Cleanup ==
    /\ UNCHANGED <<storeVars, rangeVars, backoffVars, statusVars>>
    /\ pc = "cleanup"
    /\ pc' = "sleep"
    /\ IF cleanup_blocks
       THEN \E ok \in BOOLEAN :
              /\ blocks' = IngestorCleanup(blocks, head, ok).blocks
              /\ cleanup_result' = IngestorCleanup(blocks, head, ok).result
              /\ calls' = Append(calls, "cleanup_cached_blocks")
       ELSE UNCHANGED <<blocks, calls, cleanup_result>>
    /\ ingested_latest' = IF LatestIngestedOk THEN latest_block ELSE None
    /\ UNCHANGED <<head, cleanup_blocks, attempt, head_block_ptr_opt, latest_block,
                   missing_block_hash, fillIters, pollResult, unavailable_hash>>

\* a variant in which the loop ends after a poll that failed
SleepOnlyAfterOk ==
    /\ UNCHANGED <<storeVars, rangeVars, backoffVars, statusVars>>
    /\ pc = "sleep"
    /\ pollResult = "Ok"
    /\ pc' = "acquire"
    /\ UNCHANGED <<blocks, head, cleanup_blocks, attempt, head_block_ptr_opt, latest_block,
                   missing_block_hash, fillIters, pollResult, calls, cleanup_result,
                   unavailable_hash, ingested_latest>>

\* a variant in which the next iteration starts while the fill loop still runs
SleepOverlapping ==
    /\ UNCHANGED <<storeVars, rangeVars, backoffVars, statusVars>>
    /\ pc \in {"sleep", "fill"}
    /\ pc' = "acquire"
    /\ UNCHANGED <<blocks, head, cleanup_blocks, attempt, head_block_ptr_opt, latest_block,
                   missing_block_hash, fillIters, pollResult, calls, cleanup_result,
                   unavailable_hash, ingested_latest>>

\* run: the polling interval has passed
Sleep ==
    /\ UNCHANGED <<storeVars, rangeVars, backoffVars, statusVars>>
    /\ pc = "sleep"
    /\ pc' = "acquire"
    /\ UNCHANGED <<blocks, head, cleanup_blocks, attempt, head_block_ptr_opt, latest_block,
                   missing_block_hash, fillIters, pollResult, calls, cleanup_result,
                   unavailable_hash, ingested_latest>>

Next ==
    \/ AcquireFail
    \/ AcquireOk
    \/ PollHeadErr
    \/ PollLatestErr
    \/ PollBegin
    \/ IngestStep
    \/ Cleanup
    \/ Sleep

Spec == Init /\ [][Next]_vars

\* ingest_block can be called: do_poll is at a call of it
IngestEnabled == pc \in {"ingest_latest", "fill"} /\ fillIters < MaxIters

\* the run loop under a runtime that keeps polling the task: every await of
\* run() and do_poll() returns, with a value or an error, and every sleep
\* ends.  The last conjunct is WF_vars(IngestStep) written out, with the
\* step's enabling condition in the place of ENABLED <<IngestStep>>_vars.
LiveSpec ==
    /\ Init
    /\ [][Next]_vars
    /\ WF_vars(AcquireFail \/ AcquireOk)
    /\ WF_vars(PollHeadErr \/ PollLatestErr \/ PollBegin)
    /\ WF_vars(Cleanup)
    /\ WF_vars(Sleep)
    /\ ([]<>(~IngestEnabled) \/ []<><<IngestStep>>_vars)

(***************************************************************************)
(* Entity version store: the mutation-application step works through the   *)
(* blocks in order and writes the versions of entity X (mutable table) or  *)
(* inserts immutable entities (immutable table); queries read the table.   *)
(***************************************************************************)
\* the clamp of the current version of X at block b (an UPDATE ... SET of
\* the rows that satisfy the latest() predicate)
ClampCurrent(tbl, b) ==
    [i \in 1..Len(tbl) |->
        IF i \in CurrentOfX(tbl)
        THEN [id |-> tbl[i].id, range |-> Clamp(tbl[i].range, b)]
        ELSE tbl[i]]

\* the UPDATE fails when int4range() raises an error
ClampFails(tbl, b) ==
    \E i \in CurrentOfX(tbl) : Clamp(tbl[i].range, b) = RangeError

\* the next block's mutations are applied
AdvanceBlock ==
    /\ UNCHANGED <<ingestVars, rangeVars, backoffVars, statusVars>>
    /\ ~txRows.open
    /\ curBlock < MaxBlock
    /\ curBlock' = curBlock + 1
    /\ UNCHANGED <<table, use_brin_for_all_query_types, rows, hist, query, selected,
                   txRows, clampResult>>

\* entity X is created: its first version is inserted
CreateEntity ==
    /\ UNCHANGED <<ingestVars, rangeVars, backoffVars, statusVars>>
    /\ ~table.immutable
    /\ ~txRows.open
    /\ Len(hist) < MaxOps
    /\ CurrentOfX(rows) = {}
    /\ rows' = Append(rows, [id |-> "X",
                             range |-> BlockRangeValueNew(FALSE, curBlock, SqlNull).range])
    /\ hist' = Append(hist, [op |-> "create", block |-> curBlock])
    /\ query' = NoQuery
    /\ selected' = {}
    /\ UNCHANGED <<table, use_brin_for_all_query_types, curBlock, txRows, clampResult>>

\* entity X is updated, first statement of the transaction: the current
\* version is clamped
UpdateEntityClamp ==
    /\ UNCHANGED <<ingestVars, rangeVars, backoffVars, statusVars>>
    /\ ~table.immutable
    /\ ~txRows.open
    /\ Len(hist) < MaxOps
    /\ CurrentOfX(rows) # {}
    /\ ~ClampFails(rows, curBlock)
    /\ clampResult' = ClampColumn(table.immutable, curBlock)
    /\ txRows' = [open |-> TRUE, rows |-> ClampCurrent(rows, curBlock)]
    /\ query' = NoQuery
    /\ selected' = {}
    /\ UNCHANGED <<table, use_brin_for_all_query_types, curBlock, rows, hist>>

\* entity X is updated, second statement of the transaction and its commit:
\* the successor version is inserted
UpdateEntityInsert ==
    /\ UNCHANGED <<ingestVars, rangeVars, backoffVars, statusVars>>
    /\ txRows.open
    /\ rows' = Append(txRows.rows,
                      [id |-> "X",
                       range |-> BlockRangeValueNew(FALSE, curBlock, SqlNull).range])
    /\ txRows' = NoTx
    /\ hist' = Append(hist, [op |-> "update", block |-> curBlock])
    /\ query' = NoQuery
    /\ selected' = {}
    /\ UNCHANGED <<table, use_brin_for_all_query_types, curBlock, clampResult>>

\* entity X is updated: the current version is clamped and its successor
\* inserted, in one transaction
UpdateEntity ==
    \/ UpdateEntityClamp
    \/ UpdateEntityInsert

\* entity X is deleted: the current version is clamped
DeleteEntity ==
    /\ UNCHANGED <<ingestVars, rangeVars, backoffVars, statusVars>>
    /\ ~table.immutable
    /\ ~txRows.open
    /\ Len(hist) < MaxOps
    /\ CurrentOfX(rows) # {}
    /\ ~ClampFails(rows, curBlock)
    /\ clampResult' = ClampColumn(table.immutable, curBlock)
    /\ rows' = ClampCurrent(rows, curBlock)
    /\ hist' = Append(hist, [op |-> "delete", block |-> curBlock])
    /\ query' = NoQuery
    /\ selected' = {}
    /\ UNCHANGED <<table, use_brin_for_all_query_types, curBlock, txRows>>

\* an immutable entity is created
CreateImmutable ==
    /\ UNCHANGED <<ingestVars, rangeVars, backoffVars, statusVars>>
    /\ table.immutable
    /\ Len(rows) < MaxImm
    /\ rows' = Append(rows, BlockRangeValueNew(TRUE, curBlock, SqlNull))
    /\ query' = NoQuery
    /\ selected' = {}
    /\ UNCHANGED <<table, use_brin_for_all_query_types, curBlock, hist, txRows, clampResult>>

\* an update or a delete is asked of an immutable entity: the statement is
\* built with clamp(), and it runs only if clamp() wrote a SET clause
ClampImmutable ==
    /\ UNCHANGED <<ingestVars, rangeVars, backoffVars, statusVars>>
    /\ table.immutable
    /\ rows # <<>>
    /\ \E b \in QueryBlocks :
         /\ clampResult' = ClampColumn(table.immutable, b)
         /\ rows' = IF ClampColumn(table.immutable, b) = "Ok"
                    THEN [i \in 1..Len(rows) |-> [block |-> b]]
                    ELSE rows
    /\ query' = NoQuery
    /\ selected' = {}
    /\ UNCHANGED <<table, use_brin_for_all_query_types, curBlock, hist, txRows>>

\* a query with the contains() predicate
QueryContains ==
    /\ UNCHANGED <<ingestVars, rangeVars, backoffVars, statusVars>>
    /\ \E filters_by_id \in BOOLEAN, b \in QueryBlocks :
         /\ query' = [fn |-> "contains", block |-> b, filters_by_id |-> filters_by_id]
         /\ selected' = Select(Contains(table.immutable, table.is_account_like,
                                        use_brin_for_all_query_types, b, filters_by_id),
                               ReadView(rows, txRows))
    /\ UNCHANGED <<table, use_brin_for_all_query_types, curBlock, rows, hist, txRows,
                   clampResult>>

\* a query with the latest() predicate
QueryLatest ==
    /\ UNCHANGED <<ingestVars, rangeVars, backoffVars, statusVars>>
    /\ query' = [fn |-> "latest", block |-> 0, filters_by_id |-> FALSE]
    /\ selected' = Select(Latest(table.immutable), ReadView(rows, txRows))
    /\ UNCHANGED <<table, use_brin_for_all_query_types, curBlock, rows, hist, txRows,
                   clampResult>>

\* a query with the changed_since() predicate
QueryChangedSince ==
    /\ UNCHANGED <<ingestVars, rangeVars, backoffVars, statusVars>>
    /\ \E b \in QueryBlocks :
         /\ query' = [fn |-> "changed_since", block |-> b, filters_by_id |-> FALSE]
         /\ selected' = Select(ChangedSince(table.immutable, b), ReadView(rows, txRows))
    /\ UNCHANGED <<table, use_brin_for_all_query_types, curBlock, rows, hist, txRows,
                   clampResult>>

\* the block ranges start..end a change-interval query is made with
IntervalBlocks == 0..MaxBlock

\* a query with the predicate of EntityBlockRange::contains
QueryEntityBlockRange ==
    /\ UNCHANGED <<ingestVars, rangeVars, backoffVars, statusVars>>
    /\ \E start \in IntervalBlocks, end \in IntervalBlocks,
          side \in IF table.immutable THEN {"none"} ELSE {"Lower", "Upper"} :
         /\ start <= end
         /\ query' = [fn |-> "entity_block_range", block |-> start, filters_by_id |-> FALSE,
                      end |-> end, bound_side |-> side]
         /\ selected' = Select(EntityBlockRangeContains(
                                   EntityBlockRangeNew(table.immutable, start, end, side)),
                               ReadView(rows, txRows))
    /\ UNCHANGED <<table, use_brin_for_all_query_types, curBlock, rows, hist, txRows,
                   clampResult>>

StoreNext ==
    \/ AdvanceBlock
    \/ CreateEntity
    \/ UpdateEntity
    \/ DeleteEntity
    \/ CreateImmutable
    \/ ClampImmutable
    \/ QueryContains
    \/ QueryLatest
    \/ QueryChangedSince

StoreInit == IngestInit /\ ~cleanup_blocks /\ StoreStart /\ RangeIdle /\ BackoffIdle /\ StatusIdle

StoreSpec == StoreInit /\ [][StoreNext]_vars

\* the entity version store under change-interval queries
IntervalNext ==
    \/ AdvanceBlock
    \/ CreateEntity
    \/ UpdateEntity
    \/ DeleteEntity
    \/ CreateImmutable
    \/ QueryEntityBlockRange

IntervalSpec == StoreInit /\ [][IntervalNext]_vars

(***************************************************************************)
(* first_block_in_range, applied to a pair of bounds.                      *)
(***************************************************************************)
\* a call of first_block_in_range with the pair of bounds
FirstBlockCall ==
    /\ UNCHANGED <<ingestVars, storeVars, backoffVars, statusVars>>
    /\ first_block = NotCalled
    /\ first_block' = FirstBlockInRange(bound, overflow_checks)
    /\ UNCHANGED <<bound, overflow_checks>>

\* the caller takes the next pair of bounds
FirstBlockNext ==
    /\ UNCHANGED <<ingestVars, storeVars, backoffVars, statusVars>>
    /\ first_block # NotCalled
    /\ \E l, u \in Bounds : bound' = [lower |-> l, upper |-> u]
    /\ first_block' = NotCalled
    /\ UNCHANGED overflow_checks

RangeNext ==
    \/ FirstBlockCall
    \/ FirstBlockNext

RangeInit ==
    /\ IngestInit
    /\ ~cleanup_blocks
    /\ StoreStart
    /\ ~table.immutable
    /\ ~table.is_account_like
    /\ ~use_brin_for_all_query_types
    /\ rows = <<>>
    /\ bound \in [lower : Bounds, upper : Bounds]
    /\ first_block = NotCalled
    /\ overflow_checks \in BOOLEAN
    /\ BackoffIdle
    /\ StatusIdle

RangeSpec == RangeInit /\ [][RangeNext]_vars

(***************************************************************************)
(* Two poll cycles side by side, each on its own cache and source, every   *)
(* call succeeding: what do_poll does as a function of the head and the    *)
(* latest header.                                                          *)
(***************************************************************************)
NoPlan == [blocks |-> {}, head |-> None, ops |-> <<>>, log |-> NoLog]

\* a cache that holds its head and the head's ancestors in the window
StatusCache(hd) ==
    IF hd = None THEN {}
    ELSE {<<1, n>> : n \in Max2(0, Num(hd) - AncestorCount)..Num(hd)}

StatusInputs ==
    [head : {None} \cup {<<1, n>> : n \in 0..MaxLagHead}, latest : {<<1, n>> : n \in 0..MaxLag}]

\* do_poll runs in one of the two cycles
StatusPoll ==
    /\ UNCHANGED <<ingestVars, storeVars, rangeVars, backoffVars>>
    /\ \E i \in 1..2 :
         /\ status_plans[i] = NoPlan
         /\ status_plans' =
              [status_plans EXCEPT ![i] = DoPoll(StatusCache(status_runs[i].head),
                                                 status_runs[i].head, status_runs[i].latest)]
    /\ UNCHANGED status_runs

StatusNext == StatusPoll

StatusInit ==
    /\ IngestInit
    /\ ~cleanup_blocks
    /\ StoreStart
    /\ ~table.immutable
    /\ ~table.is_account_like
    /\ ~use_brin_for_all_query_types
    /\ rows = <<>>
    /\ RangeIdle
    /\ BackoffIdle
    /\ status_runs \in StatusInputs \X StatusInputs
    /\ status_plans = <<NoPlan, NoPlan>>

StatusSpec == StatusInit /\ [][StatusNext]_vars

(***************************************************************************)
(* The run loop seen from its backoff: an iteration either fails to        *)
(* acquire a handle and sleeps the backoff's delay, or acquires one,       *)
(* resets the backoff and goes through poll, cleanup and sleep, none of    *)
(* which touches the backoff.                                              *)
(***************************************************************************)
\* run: self.eth_adapter() failed; backoff.sleep_async() sleeps the delay
\* and counts the attempt
BackoffSleep ==
    /\ UNCHANGED <<storeVars, rangeVars, statusVars>>
    /\ pc = "acquire"
    /\ Len(slept) < MaxSleeps
    /\ slept' = Append(slept, BackoffDelay(attempt))
    /\ attempt' = attempt + 1
    /\ UNCHANGED <<blocks, head, cleanup_blocks, pc, head_block_ptr_opt, latest_block,
                   missing_block_hash, fillIters, pollResult, calls, cleanup_result,
                   unavailable_hash, ingested_latest>>

\* a variant whose reset takes back one attempt only
BackoffResetOneStep ==
    /\ UNCHANGED <<storeVars, rangeVars, statusVars>>
    /\ pc = "acquire"
    /\ attempt > 0
    /\ attempt' = attempt - 1
    /\ UNCHANGED <<blocks, head, cleanup_blocks, pc, head_block_ptr_opt, latest_block,
                   missing_block_hash, fillIters, pollResult, calls, cleanup_result,
                   unavailable_hash, ingested_latest, slept>>

\* run: self.eth_adapter() succeeded after failures; backoff.reset(), and
\* the iteration comes back to the top of the loop
BackoffReset ==
    /\ UNCHANGED <<storeVars, rangeVars, statusVars>>
    /\ pc = "acquire"
    /\ attempt > 0
    /\ attempt' = 0
    /\ UNCHANGED <<blocks, head, cleanup_blocks, pc, head_block_ptr_opt, latest_block,
                   missing_block_hash, fillIters, pollResult, calls, cleanup_result,
                   unavailable_hash, ingested_latest, slept>>

BackoffNext ==
    \/ BackoffSleep
    \/ BackoffReset

BackoffInit == Init /\ ~cleanup_blocks

BackoffSpec == BackoffInit /\ [][BackoffNext]_vars

TypeOK ==
    /\ blocks \subseteq Universe
    /\ head \in Universe \cup {None}
    /\ pc \in {"acquire", "poll", "ingest_latest", "fill", "cleanup", "sleep"}
    /\ fillIters \in 0..MaxIters

(***************************************************************************)
(* Properties of the ingestor                                              *)
(***************************************************************************)
\* b is a or a descendant of a
RECURSIVE IsAncestorOrEq(_, _)
IsAncestorOrEq(a, b) ==
    IF b = None THEN FALSE
    ELSE IF a = b THEN TRUE
    ELSE IF Num(b) <= Num(a) THEN FALSE
    ELSE IsAncestorOrEq(a, Parent(b))

C2_BackwardSourceRejected ==
    [][(/\ pc = "poll"
        /\ head # None
        /\ latest_block' # None
        /\ Num(latest_block') < Num(head))
       => (/\ pc' = "cleanup"
           /\ pollResult' = "Ok"
           /\ blocks' = blocks
           /\ head' = head
           /\ calls' = <<"chain_head_ptr", "latest_block_header">>)]_vars

\* do_poll returned after the source reported a block below the head
C2_Witness ==
    /\ pc = "cleanup"
    /\ head_block_ptr_opt # None
    /\ latest_block # None
    /\ Num(latest_block) < Num(head_block_ptr_opt)

\* the cycle's latest block descends from the head read at its start, by a
\* chain of depth at most ancestor_count
ConnectedCycle ==
    /\ head_block_ptr_opt # None
    /\ latest_block # None
    /\ IsAncestorOrEq(head_block_ptr_opt, latest_block)
    /\ Num(latest_block) - Num(head_block_ptr_opt) <= AncestorCount

\* every stored block above the head read at the start lies on the chain
\* that leads to the cycle's latest block
NoStrayBlocks ==
    \A b \in blocks :
        Num(b) > Num(head_block_ptr_opt) => IsAncestorOrEq(b, latest_block)

C4_FillBounded == fillIters <= AncestorCount

\* a cycle that needed all ancestor_count iterations and then ended Ok
C4_Witness ==
    /\ fillIters = AncestorCount
    /\ pc = "cleanup"
    /\ pollResult = "Ok"
    /\ head = latest_block

\* the step is a cleanup that the cache ran to the end
CleanupRan == pc = "cleanup" /\ cleanup_result'.status = "Ok"

\* C11: a cleanup with the head at H and the window A leaves only blocks
\* numbered H - A or more, evicts no block numbered from H - A to H, stores
\* nothing and leaves the head alone.
C11_CleanupFloor ==
    [][(CleanupRan /\ head # None)
       => (/\ \A b \in blocks' : Num(b) >= Num(head) - AncestorCount
           /\ \A b \in blocks :
                 (Num(b) >= Num(head) - AncestorCount /\ Num(b) <= Num(head))
                     => b \in blocks'
           /\ blocks' \subseteq blocks
           /\ head' = head)]_vars

\* a cleanup evicted a block and kept the whole window below the head
C11_Witness ==
    /\ pc = "sleep"
    /\ cleanup_result.status = "Ok"
    /\ cleanup_result.value # None
    /\ cleanup_result.value[2] >= 1
    /\ \A n \in (Num(head) - AncestorCount)..Num(head) : \E b \in blocks : Num(b) = n

\* the step is do_poll's ingest_block of a latest block that the cycle
\* before ingested and that is still stored
ReingestLatest ==
    /\ pc = "ingest_latest"
    /\ latest_block = ingested_latest
    /\ latest_block \in blocks

C13_LoopNeverStops ==
    /\ [][/\ pc = "cleanup" => pc' = "sleep"
          /\ pc = "sleep" => pc' = "acquire"]_vars
    /\ []<>(pc = "acquire")

\* the loop is back at the top after a cycle that failed with BlockUnavailable
C13_Witness ==
    /\ pc = "acquire"
    /\ pollResult = "BlockUnavailable"
    /\ calls # <<>>

\* C14: the backoff changes in no step but an acquisition: a failed one
\* advances it, a successful one resets it, and the poll cycle, the cleanup
\* and the sleep leave it alone.
C14_BackoffOnlyOnAcquire ==
    [][/\ pc # "acquire" => attempt' = attempt
       /\ (pc = "acquire" /\ pc' = "poll") => attempt' = 0
       /\ (pc = "acquire" /\ pc' = "acquire")
             => attempt' = Min2(attempt + 1, MaxAttempt)]_vars

\* a cycle failed, and acquisitions failed after it
C14_Witness ==
    /\ pc = "acquire"
    /\ attempt = MaxAttempt
    /\ pollResult = "Unknown"
    /\ calls # <<>>

\* C15: when do_poll reads a latest header equal to the head, it returns Ok
\* at once: only the head and the header were read, and the stored blocks
\* and the head are unchanged.
C15_LatestIsHeadNoop ==
    [][(/\ pc = "poll"
        /\ head # None
        /\ latest_block' = head)
       => (/\ pc' = "cleanup"
           /\ pollResult' = "Ok"
           /\ blocks' = blocks
           /\ head' = head
           /\ calls' = <<"chain_head_ptr", "latest_block_header">>)]_vars

\* do_poll returned after the source reported the head itself
C15_Witness ==
    /\ pc = "cleanup"
    /\ head_block_ptr_opt # None
    /\ latest_block = head_block_ptr_opt
    /\ pollResult = "Ok"
    /\ calls = <<"chain_head_ptr", "latest_block_header">>

\* the order in which run() goes through its positions
RunOrder ==
    {<<"acquire", "poll">>, <<"poll", "ingest_latest">>, <<"poll", "cleanup">>,
     <<"ingest_latest", "fill">>, <<"ingest_latest", "cleanup">>, <<"fill", "cleanup">>,
     <<"cleanup", "sleep">>, <<"sleep", "acquire">>}

\* C19: the iterations of one driver do not overlap: run() moves through
\* acquisition, poll, fill loop, cleanup and sleep in that order, the cache
\* changes only inside a poll cycle or the cleanup, and when the sleep
\* begins do_poll has returned.
C19_CyclesSequential ==
    [][/\ pc' # pc => <<pc, pc'>> \in RunOrder
       /\ (blocks' # blocks \/ head' # head) => pc \in {"ingest_latest", "fill", "cleanup"}
       /\ head' # head => pc \in {"ingest_latest", "fill"}
       /\ pc' = "sleep" => (pollResult' # "Ok" \/ missing_block_hash' = None)]_vars

\* the sleep began after a cycle that ran the fill loop and the cleanup
C19_Witness ==
    /\ pc = "sleep"
    /\ fillIters >= 1
    /\ pollResult = "Ok"
    /\ calls[Len(calls)] = "cleanup_cached_blocks"

\* C20: when the source has no block for the hash, ingest_block fails with
\* BlockUnavailable carrying that hash after block_by_hash alone; the stored
\* blocks and the head are unchanged and do_poll returns that error.
C20_BlockUnavailable ==
    [][/\ \A hash \in Universe :
             LET r == IngestBlock(blocks, head, hash, "unavailable")
             IN  /\ r.result = "BlockUnavailable"
                 /\ r.unavailable = hash
                 /\ r.ops = <<"block_by_hash">>
                 /\ r.blocks = blocks
                 /\ r.head = head
       /\ (pc \in {"ingest_latest", "fill"} /\ unavailable_hash' # None)
             => (/\ unavailable_hash' = missing_block_hash
                 /\ pollResult' = "BlockUnavailable"
                 /\ calls' = Append(calls, "block_by_hash")
                 /\ blocks' = blocks
                 /\ head' = head
                 /\ pc' = "cleanup")]_vars

\* the fill loop asked for an ancestor that the source no longer had
C20_Witness ==
    /\ pc = "cleanup"
    /\ pollResult = "BlockUnavailable"
    /\ unavailable_hash # None
    /\ unavailable_hash # latest_block
    /\ fillIters >= 1
    /\ calls[Len(calls)] = "block_by_hash"

\* C22: when the head is set to H, H and every ancestor of H numbered from
\* max(0, H.number - ancestor_count) up are stored, each the parent of the
\* next, in every reachable state.
C22_HeadWindowStored ==
    head # None
        => /\ head \in blocks
           /\ MissingParent(blocks, head, Max2(0, Num(head) - AncestorCount)) = None
           /\ \A n \in Max2(0, Num(head) - AncestorCount)..Num(head) :
                 \E b \in blocks : Num(b) = n /\ IsAncestorOrEq(b, head)

\* a cycle failed and its cleanup evicted a block, with a head that has a
\* full window of ancestors
C22_Witness ==
    /\ pc = "sleep"
    /\ pollResult # "Ok"
    /\ cleanup_result.status = "Ok"
    /\ cleanup_result.value # None
    /\ cleanup_result.value[2] >= 1
    /\ head # None
    /\ Num(head) >= AncestorCount

\* the source reports L and serves every block asked for, the cache and
\* the acquisition succeed, and L is not numbered below the head
SourceSettled(L) ==
    /\ latest_block \in {None, L}
    /\ pollResult = "Ok"
    /\ attempt = 0
    /\ Num(L) >= Num(head)

\* L is the head, or L is numbered above the head and no other stored block
\* is numbered as L or above
CandidateIs(L) ==
    \/ head = L
    \/ /\ Num(L) > Num(head)
       /\ \A b \in blocks : Num(b) >= Num(L) => b = L

C24_MissingDescends ==
    [][(pc \in {"ingest_latest", "fill"} /\ pc' = "fill")
       => (/\ missing_block_hash' # None
           /\ pc = "fill" => Num(missing_block_hash') < Num(missing_block_hash)
           /\ Num(missing_block_hash') >= Num(latest_block) - AncestorCount
           /\ Num(missing_block_hash') >= 0)]_vars

\* the second head update of a cycle returned the ancestor at the edge of
\* the window
C24_Witness ==
    /\ pc = "fill"
    /\ fillIters = 1
    /\ missing_block_hash # None
    /\ Num(latest_block) >= AncestorCount
    /\ Num(missing_block_hash) = Num(latest_block) - AncestorCount

\* C30: a cleanup that fails and one that has nothing to clean leave the run
\* loop as a cleanup that removed blocks does: the next step is the sleep
\* and then the next iteration, the backoff, the head and the result of the
\* poll are unchanged, and the stored blocks are unchanged as well.
C30_CleanupNonFatal ==
    [][/\ pc = "cleanup"
          => /\ pc' = "sleep"
             /\ attempt' = attempt
             /\ head' = head
             /\ pollResult' = pollResult
             /\ cleanup_result'.status \in {"none", "Ok", "Err"}
             /\ (cleanup_result'.status = "Err" \/ cleanup_result'.value = None)
                   => blocks' = blocks
       /\ pc = "sleep" => (pc' = "acquire" /\ attempt' = attempt)]_vars

\* a cleanup failed with blocks below the floor in the cache, and the run
\* loop went on to the sleep
C30_Witness ==
    /\ pc = "sleep"
    /\ cleanup_result.status = "Err"
    /\ head # None
    /\ \E b \in blocks : Num(b) < Num(head) - AncestorCount

\* the delays slept in the current run of consecutive failures, oldest first
CurrentRun == SubSeq(slept, Len(slept) - attempt + 1, Len(slept))

\* C31: the delay slept after the k-th consecutive acquisition failure is
\* 250 ms for the first failure, never shrinks as k grows and never exceeds
\* 30 s; after a successful acquisition the next failure sleeps 250 ms again;
\* no number of failures ends the retries
C31_BackoffDelays ==
    /\ attempt <= Len(slept)
    /\ \A i \in 1..Len(slept) : slept[i] >= 250 /\ slept[i] <= 30000
    /\ attempt >= 1 => CurrentRun[1] = 250
    /\ \A k \in 1..(attempt - 1) : CurrentRun[k] <= CurrentRun[k + 1]
    /\ attempt = 0 => BackoffDelay(attempt) = 250
    /\ Len(slept) < MaxSleeps => ENABLED BackoffSleep

\* eight failures in a row reached the ceiling, an acquisition succeeded and
\* the failure after it slept the base delay
C31_Witness ==
    /\ Len(slept) = 9
    /\ attempt = 1
    /\ slept[7] < 30000
    /\ slept[8] = 30000
    /\ slept[9] = 250

\* the cycle read the head and the latest header, and the cache had no head
ColdCycle == latest_block # None /\ head_block_ptr_opt = None

\* C32: a poll cycle that finds no head in the cache makes neither the
\* equality nor the backward check and computes no lag: it ingests the latest
\* block whatever its number and goes on to the missing ancestors, and when
\* it returns Ok the cache has a head at or above the latest block
C32_ColdStartIngests ==
    /\ (pc = "poll" /\ head = None) =>
          \A latest \in Universe :
              /\ PollDecision(head, latest) = "ingest"
              /\ StatusCode(head, latest) = "cold_start"
    /\ ColdCycle =>
          /\ Len(calls) >= 2
          /\ Len(calls) = 2 => pc = "ingest_latest" /\ missing_block_hash = latest_block
          /\ Len(calls) > 2 => calls[3] = "block_by_hash"
          /\ pc = "fill" => missing_block_hash \notin blocks \cup {None}
          /\ (pc \in {"cleanup", "sleep"} /\ pollResult = "Ok") =>
                head # None /\ Num(head) >= Num(latest_block)

\* a cold start on block 2: the latest block and its ancestors in the window
\* were ingested and block 2 became the head
C32_Witness ==
    /\ ColdCycle
    /\ pc = "cleanup"
    /\ pollResult = "Ok"
    /\ fillIters = AncestorCount
    /\ head = latest_block
    /\ Num(latest_block) = AncestorCount

\* do_poll reaches the status message with a code: there is a head and the
\* latest block is above it, by more than the ancestor window so that the
\* cache holds none of the blocks the cycle asks for
Classified(run) ==
    /\ run.head # None
    /\ Num(run.latest) - Num(run.head) > AncestorCount

\* C33: two poll cycles on the same cache whose status messages carry
\* different codes (lagging, 15 blocks or more behind, and normal) make the
\* same source fetches and cache operations in the same order and store as
\* many blocks: the code only shows in the log
C33_LaggingOnlyLogs ==
    (/\ status_plans[1] # NoPlan
     /\ status_plans[2] # NoPlan
     /\ Classified(status_runs[1])
     /\ Classified(status_runs[2])
     /\ status_runs[1].head = status_runs[2].head
     /\ StatusCode(status_runs[1].head, status_runs[1].latest)
          # StatusCode(status_runs[2].head, status_runs[2].latest))
    => /\ status_plans[1].ops = status_plans[2].ops
       /\ Len(status_plans[1].ops) = 2 + 4 * (AncestorCount + 1)
       /\ Cardinality(status_plans[1].blocks) = Cardinality(status_plans[2].blocks)
       /\ status_plans[1].head = status_runs[1].latest
       /\ status_plans[2].head = status_runs[2].latest
       /\ status_plans[1].log.code # status_plans[2].log.code
       /\ status_plans[1].log.blocks_needed = status_plans[2].log.blocks_needed

\* head 1 polled against latest block 15 (normal) and latest block 16
\* (lagging): both cycles ran
C33_Witness ==
    /\ status_runs[1] = [head |-> <<1, 1>>, latest |-> <<1, 15>>]
    /\ status_runs[2] = [head |-> <<1, 1>>, latest |-> <<1, 16>>]
    /\ status_plans[1].log.code = "BlockIngestionStatus"
    /\ status_plans[2].log.code = "BlockIngestionLagging"
    /\ status_plans[1].ops = status_plans[2].ops
    /\ Len(status_plans[1].ops) > 2

\* the operations of one ingest_block call that runs to its end
IngestOps == <<"block_by_hash", "load_full_block", "upsert_block", "attempt_chain_head_update">>

\* C34: ingest_block fetches the block, then its receipts, then stores it and
\* only then attempts the head update: each call makes a prefix of these
\* four operations, the head update is attempted only with the block stored,
\* a call that stops earlier leaves cache and head alone, and a head update
\* that fails gives IngestorError::Unknown with the block stored and the
\* head unchanged
C34_IngestOrder ==
    /\ pc \in {"ingest_latest", "fill"} =>
          \A outcome \in IngestOutcomes :
              LET hash == IngestTarget(latest_block, missing_block_hash)
                  r    == IngestBlock(blocks, head, hash, outcome)
              IN  /\ Len(r.ops) \in 1..4
                  /\ r.ops = SubSeq(IngestOps, 1, Len(r.ops))
                  /\ Len(r.ops) = 4 => hash \in r.blocks
                  /\ Len(r.ops) < 4 => r.blocks = blocks /\ r.head = head /\ r.result # "Ok"
                  /\ outcome = "head_err" =>
                        /\ r.result = "Unknown"
                        /\ Len(r.ops) = 4
                        /\ r.head = head
    /\ \A i \in 1..Len(calls) :
          /\ calls[i] = "attempt_chain_head_update" => i > 1 /\ calls[i - 1] = "upsert_block"
          /\ calls[i] = "upsert_block" => i > 1 /\ calls[i - 1] = "load_full_block"
          /\ calls[i] = "load_full_block" => i > 1 /\ calls[i - 1] = "block_by_hash"

\* the head update of the first ingest_block failed: the latest block is
\* stored, the head is the one read at the start, the cycle ended Unknown
C34_Witness ==
    /\ pc = "cleanup"
    /\ Len(calls) = 6
    /\ calls[6] = "attempt_chain_head_update"
    /\ pollResult = "Unknown"
    /\ latest_block \in blocks
    /\ head = head_block_ptr_opt
    /\ head # None
    /\ Num(latest_block) > Num(head)

\* the cycle read a head and a latest header of the head's number and
\* another hash
SameHeightCycle ==
    /\ head_block_ptr_opt # None
    /\ latest_block # None
    /\ Num(latest_block) = Num(head_block_ptr_opt)
    /\ latest_block # head_block_ptr_opt

ResumedHead(bs, hd) == DoPoll(bs, hd, latest_block).head

\* C37: a poll cycle that fails in an ingest_block call keeps the blocks it
\* stored and leaves the head as it was read at the start of the cycle; every
\* step of the cycle, and the cleanup after a failed cycle, leaves unchanged
\* the head that an uninterrupted cycle against the same latest block would
\* reach from the cache, and a cycle that ends Ok ends on that head: a later
\* cycle that resumes the fill ends on the head the uninterrupted cycle
\* would have reached
C37_ResumeAfterFailure ==
    [][/\ pc \in {"ingest_latest", "fill"} =>
            /\ blocks \subseteq blocks'
            /\ (blocks' # blocks \/ head' # head) =>
                  ResumedHead(blocks', head') = ResumedHead(blocks, head)
            /\ (pc' = "cleanup" /\ pollResult' # "Ok") => head' = head_block_ptr_opt
            /\ (pc' = "cleanup" /\ pollResult' = "Ok") => head' = ResumedHead(blocks, head)
       /\ (pc = "cleanup" /\ pollResult # "Ok" /\ latest_block # None) =>
            /\ head' = head
            /\ blocks' # blocks => ResumedHead(blocks', head') = ResumedHead(blocks, head)]_vars

\* a cycle on a cache without a head found block 1 stored by a cycle that had
\* ingested the same latest block 2 and failed: it fetched block 2 and
\* block 0 only and made block 2 the head
C37_Witness ==
    /\ pc = "cleanup"
    /\ pollResult = "Ok"
    /\ ingested_latest = latest_block
    /\ head_block_ptr_opt # head
    /\ head = latest_block
    /\ fillIters >= 1
    /\ fillIters < AncestorCount
    /\ Num(head) - Num(head_block_ptr_opt) > AncestorCount

\* C38: an iteration of run() that gets no handle makes no poll cycle and no
\* cleanup and touches neither the cache nor what the last cycle left: its
\* only effect is one more attempt counted by the backoff, whose delay it
\* sleeps, and the next iteration starts at the acquisition again without
\* the polling-interval sleep
C38_AcquireFailureFrame ==
    [][pc = "acquire" =>
          \/ pc' = "poll"
          \/ /\ pc' = "acquire"
             /\ attempt' \in {attempt, attempt + 1}
             /\ attempt' = attempt => attempt = MaxAttempt \/ UNCHANGED vars
             /\ UNCHANGED <<blocks, head, calls, pollResult, cleanup_result, head_block_ptr_opt,
                            latest_block, missing_block_hash, fillIters, unavailable_hash,
                            ingested_latest, cleanup_blocks>>]_vars

\* after a cycle that ended Ok on a cache with a head, an acquisition failed:
\* the cycle's record and the cache are as the cycle left them
C38_Witness ==
    /\ pc = "acquire"
    /\ attempt = 1
    /\ pollResult = "Ok"
    /\ head # None
    /\ head = latest_block
    /\ Len(calls) > 2
    /\ cleanup_blocks
    /\ cleanup_result.status = "Ok"

\* how often the cycle's record has cleanup_cached_blocks
CleanupCalls == Cardinality({i \in 1..Len(calls) : calls[i] = "cleanup_cached_blocks"})

\* C39: with cleanup enabled, an iteration that got a handle calls
\* cleanup_cached_blocks exactly once, as its last operation, after the poll
\* cycle ended (Ok or with an error) and before the polling-interval sleep;
\* with cleanup disabled it is never called
C39_CleanupOncePerIteration ==
    /\ pc \in {"poll", "ingest_latest", "fill", "cleanup"} =>
          CleanupCalls = 0 /\ cleanup_result = NoCleanup
    /\ pc = "sleep" =>
          IF cleanup_blocks
          THEN /\ CleanupCalls = 1
               /\ calls[Len(calls)] = "cleanup_cached_blocks"
               /\ Len(calls) >= 2
               /\ cleanup_result # NoCleanup
          ELSE CleanupCalls = 0 /\ cleanup_result = NoCleanup
    /\ pc = "acquire" => CleanupCalls = (IF cleanup_blocks /\ calls # <<>> THEN 1 ELSE 0)

\* cleanup ran after a poll cycle that failed in its fill loop
C39_Witness ==
    /\ pc = "sleep"
    /\ cleanup_blocks
    /\ pollResult = "BlockUnavailable"
    /\ fillIters >= 1
    /\ calls[Len(calls)] = "cleanup_cached_blocks"
    /\ cleanup_result.status = "Ok"

(***************************************************************************)
(* Properties of the entity version store                                  *)
(***************************************************************************)
\* the block ranges of the versions of X, in the order they were inserted
RECURSIVE RangesOfX(_)
RangesOfX(tbl) ==
    IF tbl = <<>> THEN <<>>
    ELSE IF Head(tbl).id = "X" THEN <<Head(tbl).range>> \o RangesOfX(Tail(tbl))
    ELSE RangesOfX(Tail(tbl))

\* the mutations of X were applied at strictly increasing blocks
StrictlyIncreasing(h) == \A i, j \in 1..Len(h) : i < j => h[i].block < h[j].block

\* every mutation of X so far inserted a version (a create or an update)
OnlyUpserts(h) == \A i \in 1..Len(h) : h[i].op \in {"create", "update"}

\* block b lies in the stored range r
InRange(r, b) ==
    /\ r.lower[1] = "Included"
    /\ r.lower[2] <= b
    /\ r.upper = Unbounded \/ (r.upper[1] = "Excluded" /\ b < r.upper[2])

\* two stored ranges share a block
Overlap(r1, r2) == \E b \in QueryBlocks : InRange(r1, b) /\ InRange(r2, b)

\* C5: after N clamp+insert mutations of a mutable entity at strictly
\* increasing blocks there are exactly N versions, each one's upper bound is
\* the next one's lower bound, no two overlap, and exactly one is unbounded.
C5_RangePartition ==
    (~table.immutable /\ Len(hist) >= 1 /\ OnlyUpserts(hist) /\ StrictlyIncreasing(hist))
        => LET v == RangesOfX(rows)
           IN  /\ Len(v) = Len(hist)
               /\ \A i \in 1..(Len(v) - 1) :
                     /\ v[i].upper[1] = "Excluded"
                     /\ v[i + 1].lower = Included(v[i].upper[2])
               /\ \A i, j \in 1..Len(v) : i # j => ~Overlap(v[i], v[j])
               /\ Cardinality({i \in 1..Len(v) : v[i].upper = Unbounded}) = 1

\* three mutations at three blocks left three versions
C5_Witness ==
    /\ ~table.immutable
    /\ Len(hist) = 3
    /\ OnlyUpserts(hist)
    /\ StrictlyIncreasing(hist)
    /\ Len(RangesOfX(rows)) = 3

\* C6: whatever creates, updates and deletes were applied to a mutable
\* entity, no two of its stored ranges overlap and at most one is unbounded.
C6_NoOverlapOneCurrent ==
    ~table.immutable
        => LET v == RangesOfX(rows)
           IN  /\ \A i, j \in 1..Len(v) : i # j => ~Overlap(v[i], v[j])
               /\ Cardinality({i \in 1..Len(v) : v[i].upper = Unbounded}) <= 1

\* the entity was deleted and created again, and then updated
C6_Witness ==
    /\ ~table.immutable
    /\ Len(hist) = 3
    /\ hist[1].op = "delete" \/ hist[2].op = "delete"
    /\ hist[3].op \in {"create", "update"}
    /\ Len(RangesOfX(rows)) >= 2

\* the contains() predicate carries the two conjuncts on the bounds
ExtraConjunctEmitted ==
    /\ query.fn = "contains"
    /\ ~table.immutable
    /\ table.is_account_like
    /\ query.block < BLOCK_NUMBER_MAX
    /\ ~query.filters_by_id \/ use_brin_for_all_query_types

\* C7: on a mutable table contains() selects the rows that block_range @>
\* block alone selects, whether or not the conjuncts on the bounds are there.
C7_ExtraConjunctRedundant ==
    (query.fn = "contains" /\ ~table.immutable)
        => selected = {i \in 1..Len(rows) :
                          SqlRangeContains(rows[i].range, query.block) = "true"}

\* the conjuncts were emitted for a table with the unversioned row, a clamped
\* and an unbounded version, and the query kept some rows and dropped others
C7_Witness ==
    /\ ExtraConjunctEmitted
    /\ \E i \in 1..Len(rows) : rows[i].id = "M"
    /\ \E i \in VersionsOfX(rows) : rows[i].range.upper[1] = "Excluded"
    /\ CurrentOfX(rows) # {}
    /\ selected \cap VersionsOfX(rows) # {}
    /\ VersionsOfX(rows) \ selected # {}

\* C8: contains() selects every current row at every block at or above the
\* row's lower bound, the maximum block number included.
C8_CurrentContained ==
    (query.fn = "contains" /\ ~table.immutable)
        => \A i \in Select(Latest(FALSE), rows) :
              rows[i].range.lower[2] <= query.block => i \in selected

\* the current version of X was selected at the maximum block number with
\* the table account-like
C8_Witness ==
    /\ query.fn = "contains"
    /\ ~table.immutable
    /\ table.is_account_like
    /\ ~query.filters_by_id
    /\ query.block = BLOCK_NUMBER_MAX
    /\ CurrentOfX(rows) # {}
    /\ CurrentOfX(rows) \subseteq selected

\* C9: changed_since(B) selects exactly the rows whose lower bound (mutable
\* table) or block$ (immutable table) is at least B.
C9_ChangedSinceExact ==
    query.fn = "changed_since"
        => selected =
              IF table.immutable
              THEN {i \in 1..Len(rows) : rows[i].block >= query.block}
              ELSE {i \in 1..Len(rows) :
                       /\ rows[i].range.lower[1] = "Included"
                       /\ rows[i].range.lower[2] >= query.block}

\* of two versions of X, changed_since selected the second and not the first
C9_Witness ==
    /\ query.fn = "changed_since"
    /\ ~table.immutable
    /\ Len(hist) = 2
    /\ hist[2].op = "update"
    /\ hist[1].block < query.block
    /\ query.block <= hist[2].block
    /\ Cardinality(selected \cap VersionsOfX(rows)) = 1
    /\ \A i \in selected \cap VersionsOfX(rows) :
          rows[i].range.lower = Included(hist[2].block)

\* C10: for an entity created at block c and updated at strictly increasing
\* blocks, contains(b) with b >= c selects exactly one version, the one with
\* lower <= b < upper; at an update block U that is the version inserted at
\* U, at U - 1 the version clamped at U.
C10_ExactlyOneVersion ==
    (/\ query.fn = "contains"
     /\ ~table.immutable
     /\ Len(hist) >= 1
     /\ OnlyUpserts(hist)
     /\ StrictlyIncreasing(hist)
     /\ query.block >= hist[1].block)
        => LET sel == selected \cap VersionsOfX(rows)
           IN  /\ Cardinality(sel) = 1
               /\ \A i \in sel :
                     /\ InRange(rows[i].range, query.block)
                     /\ \A k \in 2..Len(hist) :
                           /\ query.block = hist[k].block
                                 => rows[i].range.lower = Included(hist[k].block)
                           /\ query.block = hist[k].block - 1
                                 => rows[i].range.upper = Excluded(hist[k].block)

\* contains at the block of an update selected the version inserted there
C10_Witness ==
    /\ query.fn = "contains"
    /\ ~table.immutable
    /\ Len(hist) >= 2
    /\ OnlyUpserts(hist)
    /\ StrictlyIncreasing(hist)
    /\ query.block = hist[2].block
    /\ \E i \in selected \cap VersionsOfX(rows) :
          rows[i].range.lower = Included(hist[2].block)

\* C16: clamp() on an immutable table ends in a panic at every block: no
\* clamp call on it ends with Ok or with an error value, and no row of an
\* immutable table is ever changed.
C16_ClampImmutablePanics ==
    [][table.immutable
       => (/\ \A b \in QueryBlocks : ClampColumn(table.immutable, b) = "panic"
           /\ clampResult' \in {clampResult, "panic"}
           /\ Len(rows') >= Len(rows)
           /\ \A i \in 1..Len(rows) : rows'[i] = rows[i])]_vars

\* clamp() was called on an immutable table that holds rows
C16_Witness ==
    /\ table.immutable
    /\ clampResult = "panic"
    /\ Len(rows) = MaxImm

\* the step is the clamp of a delete, or the clamp of an update
DeleteStep == hist' # hist /\ hist'[Len(hist')].op = "delete"

UpdateClampStep == ~txRows.open /\ txRows'.open

\* table after is table before with each current version of X clamped at b:
\* the lower bound kept, the upper bound b, every other row as it was
ClampedExactly(before, after, b) ==
    /\ Len(after) = Len(before)
    /\ \A i \in 1..Len(before) :
          IF i \in CurrentOfX(before)
          THEN /\ after[i].id = before[i].id
               /\ after[i].range = [lower |-> before[i].range.lower, upper |-> Excluded(b)]
          ELSE after[i] = before[i]

\* the same for a version that begins below b; a version that begins at b is
\* left with the empty range
ClampedOrEmptied(before, after, b) ==
    /\ Len(after) = Len(before)
    /\ \A i \in 1..Len(before) :
          IF i \in CurrentOfX(before)
          THEN /\ after[i].id = before[i].id
               /\ after[i].range = IF before[i].range.lower[2] < b
                                   THEN [lower |-> before[i].range.lower,
                                         upper |-> Excluded(b)]
                                   ELSE EmptyRange
          ELSE after[i] = before[i]

\* C17 as stated: every clamp at block B turns the clamped row's range into
\* [lower, B) with its lower bound kept, and changes no other row.
C17_ClampFrame_Original ==
    [][/\ DeleteStep => ClampedExactly(rows, rows', curBlock)
       /\ UpdateClampStep => ClampedExactly(rows, txRows'.rows, curBlock)]_vars

\* C17 amended: the same for a clamp at a block above the row's lower bound;
\* at the lower bound itself the range becomes the empty range, which has no
\* bounds, and below it int4range raises an error.
C17_ClampFrame ==
    [][/\ DeleteStep => ClampedOrEmptied(rows, rows', curBlock)
       /\ UpdateClampStep => ClampedOrEmptied(rows, txRows'.rows, curBlock)
       /\ \A l \in (0 - 1)..MaxBlock, b \in 0..MaxBlock :
             Clamp([lower |-> Included(l), upper |-> Unbounded], b)
                = IF l < b THEN [lower |-> Included(l), upper |-> Excluded(b)]
                  ELSE IF l = b THEN EmptyRange
                  ELSE RangeError]_vars

\* X was deleted at a block above the one it was created at, in a table that
\* holds the unversioned row too
C17_Witness ==
    /\ ~table.immutable
    /\ Len(hist) = 2
    /\ hist[2].op = "delete"
    /\ hist[1].block < hist[2].block
    /\ \E i \in 1..Len(rows) : rows[i] = [id |-> "M", range |-> UNVERSIONED_RANGE]
    /\ \E i \in VersionsOfX(rows) :
          rows[i].range = [lower |-> Included(hist[1].block),
                           upper |-> Excluded(hist[2].block)]

C21_MaxBlockShortCircuit_Original ==
    (query.fn = "contains" /\ query.block = BLOCK_NUMBER_MAX)
        => selected = 1..Len(rows)

\* C21 amended: at the maximum block number contains() emits the literal
\* true for an immutable table, which selects every row; for a mutable table
\* it emits block_range @> 2147483647 without the conjuncts on the bounds, a
\* real comparison that selects the rows with no upper bound and no others.
C21_MaxBlockShortCircuit ==
    /\ \A im, al, ub, f \in BOOLEAN :
          Contains(im, al, ub, BLOCK_NUMBER_MAX, f)
             = IF im
               THEN << [op |-> "true", block |-> BLOCK_NUMBER_MAX] >>
               ELSE << [op |-> "range_contains", block |-> BLOCK_NUMBER_MAX] >>
    /\ (query.fn = "contains" /\ query.block = BLOCK_NUMBER_MAX)
          => selected = IF table.immutable
                        THEN 1..Len(rows)
                        ELSE {i \in 1..Len(rows) : rows[i].range.upper = Unbounded}

\* contains() at the maximum block number ran on an account-like mutable
\* table and left out a clamped version of X
C21_Witness ==
    /\ query.fn = "contains"
    /\ query.block = BLOCK_NUMBER_MAX
    /\ ~table.immutable
    /\ table.is_account_like
    /\ ~query.filters_by_id
    /\ CurrentOfX(rows) # {}
    /\ CurrentOfX(rows) \subseteq selected
    /\ \E i \in VersionsOfX(rows) : rows[i].range.upper[1] = "Excluded" /\ i \notin selected

\* C25: latest() on a mutable table is block_range @> 2147483647 and selects
\* a row if and only if its range has no upper bound; on an immutable table
\* it is true and selects every row.
C25_LatestSelectsUnbounded ==
    /\ Latest(FALSE) = << [op |-> "range_contains", block |-> 2147483647] >>
    /\ Latest(TRUE) = << [op |-> "true", block |-> 0] >>
    /\ query.fn = "latest"
          => selected = IF table.immutable
                        THEN 1..Len(rows)
                        ELSE {i \in 1..Len(rows) : rows[i].range.upper = Unbounded}

\* latest() selected the unversioned row and the current version of X and
\* left out a clamped and an emptied version
C25_Witness ==
    /\ query.fn = "latest"
    /\ ~table.immutable
    /\ \E i \in selected : rows[i].id = "M"
    /\ \E i \in selected : rows[i].id = "X"
    /\ \E i \in VersionsOfX(rows) : rows[i].range.upper[1] = "Excluded" /\ i \notin selected
    /\ \E i \in VersionsOfX(rows) : rows[i].range = EmptyRange /\ i \notin selected

\* C26: on an immutable table contains(block) selects a row if and only if
\* its block$ is at most block; at the maximum block number the predicate is
\* the literal true, which selects the rows the comparison would.
C26_ImmutableContains ==
    /\ \A al, ub, f \in BOOLEAN :
          /\ Contains(TRUE, al, ub, BLOCK_NUMBER_MAX, f)
                = << [op |-> "true", block |-> BLOCK_NUMBER_MAX] >>
          /\ \A b \in QueryBlocks \ {BLOCK_NUMBER_MAX} :
                Contains(TRUE, al, ub, b, f) = << [op |-> "block_le", block |-> b] >>
    /\ (query.fn = "contains" /\ table.immutable)
          => /\ selected = {i \in 1..Len(rows) : rows[i].block <= query.block}
             /\ selected = Select(<< [op |-> "block_le", block |-> query.block] >>, rows)

\* contains() on an immutable table selected the row inserted at its block
\* and left out a row inserted above it
C26_Witness ==
    /\ query.fn = "contains"
    /\ table.immutable
    /\ \E i \in selected : rows[i].block = query.block
    /\ \E i \in 1..Len(rows) : rows[i].block > query.block /\ i \notin selected

\* the versions of X that contains(b) selects from a table
XSelectedAt(tbl, b, filters_by_id) ==
    Select(Contains(table.immutable, table.is_account_like,
                    use_brin_for_all_query_types, b, filters_by_id), tbl)
        \cap VersionsOfX(tbl)

\* the last mutation of X was a delete
XDeleted == hist # <<>> /\ hist[Len(hist)].op = "delete"

\* C27: after X is deleted at block B, latest() selects no version of X,
\* contains(b) selects none for b >= B, and contains(b) for b < B selects the
\* version it selected before the deletion.
C27_DeletedInvisible ==
    [][/\ DeleteStep
          => /\ Select(Latest(table.immutable), rows') \cap VersionsOfX(rows') = {}
             /\ \A b \in QueryBlocks, f \in BOOLEAN :
                   XSelectedAt(rows', b, f)
                      = IF b >= curBlock THEN {} ELSE XSelectedAt(rows, b, f)
       /\ (XDeleted /\ query.fn = "latest") => selected \cap VersionsOfX(rows) = {}
       /\ (XDeleted /\ query.fn = "contains" /\ query.block >= hist[Len(hist)].block)
             => selected \cap VersionsOfX(rows) = {}]_vars

\* after the deletion of X, contains() below the block of the deletion
\* selected the version that the deletion clamped
C27_Witness ==
    /\ XDeleted
    /\ query.fn = "contains"
    /\ query.block < hist[Len(hist)].block
    /\ \E i \in selected \cap VersionsOfX(rows) :
          rows[i].range.upper = Excluded(hist[Len(hist)].block)

\* C29: a row with the unversioned range [-1, +inf) is selected by
\* contains() at every block from 0 on and by latest(), whatever blocks the
\* mutations were applied at.
C29_UnversionedAlwaysVisible ==
    ~table.immutable
        => \A i \in 1..Len(rows) :
              rows[i].range = UNVERSIONED_RANGE
                 => /\ (query.fn = "contains" /\ query.block >= 0) => i \in selected
                    /\ query.fn = "latest" => i \in selected

\* the unversioned row was selected at block 0, with the conjuncts on the
\* bounds, after mutations of X up to the last block
C29_Witness ==
    /\ ExtraConjunctEmitted
    /\ query.block = 0
    /\ curBlock = MaxBlock
    /\ Len(hist) >= 2
    /\ \E i \in selected : rows[i].range = UNVERSIONED_RANGE

\* res is Some(n + 1)
IsSomeNext(res, n) == res[1] = "Some" /\ res[2] > n /\ res[2] - n = 1

\* res is what the contract of first_block_in_range gives for the bounds
FirstBlockAsStated(res, bnd) ==
    IF bnd = UNVERSIONED_RANGE \/ bnd.lower = Unbounded THEN res = NoBlock
    ELSE IF bnd.lower[1] = "Included" THEN res = SomeBlock(bnd.lower[2])
    ELSE IsSomeNext(res, bnd.lower[2])

C35_IntervalBothEndsInclusive ==
    query.fn = "entity_block_range"
        => selected =
              IF table.immutable
              THEN {i \in 1..Len(rows) :
                       query.block <= rows[i].block /\ rows[i].block <= query.end}
              ELSE IF query.bound_side = "Lower"
              THEN {i \in 1..Len(rows) :
                       /\ rows[i].range.lower[1] = "Included"
                       /\ query.block <= rows[i].range.lower[2]
                       /\ rows[i].range.lower[2] <= query.end}
              ELSE {i \in 1..Len(rows) :
                       /\ rows[i].range.upper[1] = "Excluded"
                       /\ query.block <= rows[i].range.upper[2]
                       /\ rows[i].range.upper[2] <= query.end}

\* a version clamped at block `end`: the upper-side query for start..end
\* selected it, the current version with no upper bound was not selected
C35_Witness ==
    /\ query.fn = "entity_block_range"
    /\ ~table.immutable
    /\ query.bound_side = "Upper"
    /\ query.block < query.end
    /\ \E i \in selected : rows[i].range.upper = Excluded(query.end)
    /\ \E i \in VersionsOfX(rows) \ selected : rows[i].range.upper = Unbounded

\* a stored range with a lower bound below its upper bound, or no upper bound
NonEmptyRange(r) ==
    /\ r.lower[1] = "Included"
    /\ r.upper = Unbounded \/ (r.upper[1] = "Excluded" /\ r.lower[2] < r.upper[2])

\* C40: after creates, updates and deletes of a mutable entity at strictly
\* increasing blocks every stored version has a non-empty range; a clamp at
\* the version's own lower bound gives the empty range, and a version with
\* the empty range is selected by contains() at no block
C40_VersionsNonEmpty ==
    ~table.immutable =>
        /\ StrictlyIncreasing(hist) => \A i \in VersionsOfX(rows) : NonEmptyRange(rows[i].range)
        /\ \A l \in 0..MaxBlock :
              Clamp(BlockRangeValueNew(FALSE, l, SqlNull).range, l) = EmptyRange
        /\ \A i \in VersionsOfX(rows) :
              rows[i].range = EmptyRange =>
                  /\ ~StrictlyIncreasing(hist)
                  /\ query.fn = "contains" => i \notin selected
                  /\ \A b \in QueryBlocks, f \in BOOLEAN :
                        EvalPred(Contains(FALSE, table.is_account_like,
                                          use_brin_for_all_query_types, b, f), rows[i]) # "true"

\* created at block 0, deleted at block 1, created again at block 2: the
\* versions are [0, 1) and [2, ..)
C40_Witness ==
    /\ ~table.immutable
    /\ Len(hist) = 3
    /\ StrictlyIncreasing(hist)
    /\ hist[2].op = "delete"
    /\ hist[3].op = "create"
    /\ Len(RangesOfX(rows)) = 2
    /\ \A i \in VersionsOfX(rows) : NonEmptyRange(rows[i].range)
    /\ \E i \in VersionsOfX(rows) : rows[i].range.upper = Excluded(hist[2].block)
====
